---- MODULE Spec2Model ----
(***************************************************************************)
(* ddrescuelog: the logfile (mapfile) manipulation commands of             *)
(* src/ddrescuelog.cc, over byte positions 0 .. MaxPos-1.                  *)
(*                                                                         *)
(* A logfile on disk is a sequence of sblocks [pos, size, status]; a       *)
(* Logbook is the sblock vector loaded from it together with the rescue    *)
(* domain cropped to the extent of the file.  Sequences are 1-based here,  *)
(* so the C++ index i is i+1 and "-1 / not found" is 0.                    *)
(***************************************************************************)
EXTENDS Integers, Sequences, FiniteSets, TLC

\* ------------------------------------------------------------------ bounds
MaxPos == 3            \* byte positions are 0 .. MaxPos-1

\* ---------------------------------------------------------------- statuses
non_tried   == "?"
non_trimmed == "*"
non_split   == "/"
bad_sector  == "-"
finished    == "+"

Status == {non_tried, non_trimmed, non_split, bad_sector, finished}

isstatus(ch) == ch \in Status

\* ------------------------------------------------------------------- Block
Block(p, s) == [pos |-> p, size |-> s]

Sblock(b, st) == [pos |-> b.pos, size |-> b.size, status |-> st]

BlockOf(sb) == Block(sb.pos, sb.size)

End(b) == b.pos + b.size

\* Block::includes( const Block & )
includes(a, b) == a.pos <= b.pos /\ End(a) >= End(b)

\* Block::includes( long long pos )
includes_pos(a, p) == a.pos <= p /\ End(a) > p

\* Block::operator<
BlockLess(a, b) == End(a) <= b.pos

\* Block::crop: the part of a inside b (size 0 when they do not overlap)
BlockCrop(a, b) ==
  LET p == IF a.pos > b.pos THEN a.pos ELSE b.pos
      e == IF End(a) < End(b) THEN End(a) ELSE End(b)
  IN IF e > p THEN Block(p, e - p) ELSE Block(p, 0)

\* ------------------------------------------------------------------ Domain
\* A Domain is a sequence of ordered, disjoint blocks; the empty domain is
\* the single block (0, 0), as Domain::clear leaves it.
EmptyDomain == << Block(0, 0) >>

DomainSize(d) == End(d[Len(d)]) - d[1].pos

DomainIncludes(d, b) == \E k \in 1..Len(d) : includes(d[k], b)

DomainIncludesPos(d, p) == \E k \in 1..Len(d) : includes_pos(d[k], p)

\* Domain::operator<( const Block & )
DomainLess(d, b) == Len(d) > 0 /\ End(d[Len(d)]) <= b.pos

RECURSIVE CropBlocks(_, _)
CropBlocks(d, b) ==
  IF d = << >> THEN << >>
  ELSE LET c == BlockCrop(Head(d), b)
       IN IF c.size > 0 THEN << c >> \o CropBlocks(Tail(d), b)
          ELSE CropBlocks(Tail(d), b)

\* Domain::crop
DomainCrop(d, b) ==
  LET r == CropBlocks(d, b) IN IF r = << >> THEN EmptyDomain ELSE r

\* Domain::breaks_block_by: the first domain border strictly inside b, or 0
RECURSIVE breaks_block_by(_, _, _)
breaks_block_by(d, b, k) ==
  IF k > Len(d) THEN 0
  ELSE IF includes_pos(b, d[k].pos) /\ b.pos < d[k].pos THEN d[k].pos
  ELSE IF includes_pos(b, End(d[k])) /\ b.pos < End(d[k]) THEN End(d[k])
  ELSE breaks_block_by(d, b, k + 1)

\* ----------------------------------------------------------------- Logbook
\* Logbook::compact_sblock_vector: joins every run of adjacent sblocks of
\* the same status (from the back, as the vector is walked).
RECURSIVE compact_sblock_vector(_)
compact_sblock_vector(sbv) ==
  IF Len(sbv) < 2 THEN sbv
  ELSE LET n    == Len(sbv)
           last == sbv[n]
           prev == sbv[n - 1]
       IN IF prev.status = last.status /\ End(prev) = last.pos
          THEN compact_sblock_vector(
                 SubSeq(sbv, 1, n - 2)
                 \o << [prev EXCEPT !.size = prev.size + last.size] >>)
          ELSE compact_sblock_vector(SubSeq(sbv, 1, n - 1)) \o << last >>

\* insert_sblock that puts sb behind element i
insert_sblock_behind(sbv, i, sb) ==
  SubSeq(sbv, 1, i) \o << sb >> \o SubSeq(sbv, i + 1, Len(sbv))

\* Logbook::insert_sblock( i, sb ): sb becomes element i
insert_sblock(sbv, i, sb) ==
  SubSeq(sbv, 1, i - 1) \o << sb >> \o SubSeq(sbv, i, Len(sbv))

\* Logbook::erase_sblock( i )
erase_sblock(sbv, i) ==
  SubSeq(sbv, 1, i - 1) \o SubSeq(sbv, i + 1, Len(sbv))

\* Sblock::split( pos ): << head, tail >> of sb cut at pos (strictly inside)
SblockSplit(sb, pos) ==
  << [sb EXCEPT !.size = pos - sb.pos],
     [sb EXCEPT !.pos = pos, !.size = End(sb) - pos] >>

\* Logbook::split_domain_border_sblocks: after it every sblock is either
\* inside one block of the domain or outside of all of them.
RECURSIVE split_domain_border_sblocks(_, _, _)
split_domain_border_sblocks(sbv, d, i) ==
  IF i > Len(sbv) THEN sbv
  ELSE LET pos == breaks_block_by(d, sbv[i], 1)
       IN IF pos > 0
          THEN LET ht == SblockSplit(sbv[i], pos)
               IN split_domain_border_sblocks(
                    SubSeq(sbv, 1, i - 1) \o ht \o SubSeq(sbv, i + 1, Len(sbv)),
                    d, i + 1)
          ELSE split_domain_border_sblocks(sbv, d, i + 1)

\* Logbook::find_index( pos ): the index of the sblock holding pos, 0 if none
find_index(sbv, pos) ==
  IF \E j \in 1..Len(sbv) : includes_pos(sbv[j], pos)
  THEN CHOOSE j \in 1..Len(sbv) : includes_pos(sbv[j], pos)
  ELSE 0

\* First index >= from of an in-domain sblock of status st, 0 if none
FirstChunkIndex(sbv, d, from, st) ==
  LET S == { j \in from..Len(sbv) :
               sbv[j].status = st /\ DomainIncludes(d, sbv[j]) }
  IN IF S = {} THEN 0 ELSE CHOOSE j \in S : \A k \in S : j <= k

\* Logbook::find_chunk( b, st ): the chunk of status st that starts at or
\* after b.pos, of size <= b.size; size 0 when there is none.  The callers
\* test both b.pos() == sb.pos() and b.pos() >= sb.end() on the result.
find_chunk(sbv, d, b, st) ==
  IF b.size <= 0 THEN b
  ELSE LET b1 == IF b.pos < sbv[1].pos THEN Block(sbv[1].pos, b.size) ELSE b
           ix == find_index(sbv, b1.pos)
       IN IF ix = 0 THEN Block(b1.pos, 0)
          ELSE LET j == FirstChunkIndex(sbv, d, ix, st)
               IN IF j = 0 THEN Block(b1.pos, 0)
                  ELSE LET b2 == IF b1.pos < sbv[j].pos
                                 THEN Block(sbv[j].pos, b1.size) ELSE b1
                       IN IF includes(sbv[j], b2) THEN b2
                          ELSE BlockCrop(b2, sbv[j])

\* Logbook::change_sblock_status( i, st ): replaces the status in place
change_sblock_status(sbv, i, st) == [sbv EXCEPT ![i].status = st]

\* Logbook::split_sblock_by( pos, i ): splits sblock i at pos, both halves
\* keep its status; nothing happens unless pos is strictly inside sblock i
split_sblock_by(sbv, pos, i) ==
  IF includes_pos(sbv[i], pos) /\ sbv[i].pos < pos
  THEN SubSeq(sbv, 1, i - 1) \o SblockSplit(sbv[i], pos)
       \o SubSeq(sbv, i + 1, Len(sbv))
  ELSE sbv

\* The chunk b can be changed: it is in the domain and inside one in-domain
\* sblock (otherwise change_chunk_status ends in internal_error).
chunk_in_domain(sbv, d, b) ==
  /\ DomainIncludes(d, b)
  /\ find_index(sbv, b.pos) # 0
  /\ DomainIncludes(d, sbv[find_index(sbv, b.pos)])
  /\ includes(sbv[find_index(sbv, b.pos)], b)

\* Logbook::change_chunk_status( b, st ): gives status st to the chunk b of
\* one sblock, splitting that sblock where b ends inside it and merging the
\* chunk with an in-domain neighbour that already has status st.
change_chunk_status(sbv, d, b, st) ==
  IF b.size <= 0 \/ ~chunk_in_domain(sbv, d, b) THEN sbv
  ELSE
  LET ix == find_index(sbv, b.pos)
      sb == sbv[ix]
      n  == Len(sbv)
  IN IF sb.status = st THEN sbv
     ELSE IF sb.pos < b.pos /\ End(sb) = End(b) /\ ix + 1 <= n
             /\ sbv[ix + 1].status = st /\ DomainIncludes(d, sbv[ix + 1])
     THEN \* b is the tail of sb and joins the next sblock
          [sbv EXCEPT ![ix].size = sb.size - b.size,
                      ![ix + 1].pos = b.pos,
                      ![ix + 1].size = sbv[ix + 1].size + b.size]
     ELSE
     LET v1 == IF sb.pos < b.pos
               THEN SubSeq(sbv, 1, ix - 1) \o SblockSplit(sb, b.pos)
                    \o SubSeq(sbv, ix + 1, n)
               ELSE sbv
         i1 == IF sb.pos < b.pos THEN ix + 1 ELSE ix
         cur == v1[i1]
     IN IF cur.size > b.size
        THEN \* b is a proper head of cur
             LET v2 == [v1 EXCEPT ![i1].pos = End(b),
                                  ![i1].size = cur.size - b.size]
             IN IF i1 > 1 /\ v2[i1 - 1].status = st
                   /\ DomainIncludes(d, v2[i1 - 1])
                THEN [v2 EXCEPT ![i1 - 1].size = v2[i1 - 1].size + b.size]
                ELSE insert_sblock(v2, i1, Sblock(b, st))
        ELSE \* b is all of cur
             LET v2 == [v1 EXCEPT ![i1].status = st]
                 ml == i1 > 1 /\ v2[i1 - 1].status = st
                       /\ DomainIncludes(d, v2[i1 - 1])
                 v3 == IF ml
                       THEN erase_sblock(
                              [v2 EXCEPT ![i1 - 1].size =
                                           v2[i1 - 1].size + v2[i1].size], i1)
                       ELSE v2
                 i3 == IF ml THEN i1 - 1 ELSE i1
             IN IF i3 + 1 <= Len(v3) /\ v3[i3 + 1].status = st
                   /\ DomainIncludes(d, v3[i3 + 1])
                THEN erase_sblock(
                       [v3 EXCEPT ![i3].size = v3[i3].size + v3[i3 + 1].size],
                       i3 + 1)
                ELSE v3

\* A logfile that does not exist
NoFile == << >>

\* Logbook::Logbook( 0, 0, domain, logname, 1, 1, true ): reads the file,
\* crops the domain to the extent of the file (complete_only), compacts the
\* vector and splits the sblocks at the borders of the domain.
Logbook(dom, file) ==
  IF file = NoFile
  THEN [sbv |-> << >>, domain |-> EmptyDomain, exists |-> FALSE]
  ELSE LET ext == Block(file[1].pos, End(file[Len(file)]) - file[1].pos)
           d   == DomainCrop(dom, ext)
       IN [sbv    |-> split_domain_border_sblocks(
                        compact_sblock_vector(file), d, 1),
           domain |-> d,
           exists |-> TRUE]

\* ------------------------------------------------------------ ddrescuelog
\* Outcome of a command: how it ended ("return" from the handler, "exit"
\* from std::exit, "panic" from internal_error), its exit status, and the
\* logfile written to stdout (NoFile when nothing is written).
Outcome(k, st, o) == [kind |-> k, status |-> st, out |-> o]

\* verify_logname_and_domain: NoExit when the command goes on, else the
\* status given to std::exit
NoExit == -1

verify_logname_and_domain(logbook) ==
  IF ~logbook.exists THEN 1
  ELSE IF DomainSize(logbook.domain) = 0 THEN 0
  ELSE NoExit

\* State of the loop of do_logic_ops: the sblock vector of logbook, the
\* index that the next ++i starts from, and whether internal_error was hit
LoopState(v, i, p) == [sbv |-> v, i |-> i, panic |-> p]

\* case m_and with the split of a partly finished sblock left out
and_case_no_split(sbv, d, logbook2, i) ==
  LET sb == sbv[i]
      b  == find_chunk(logbook2.sbv, logbook2.domain, BlockOf(sb), finished)
  IN IF sb.status # finished THEN LoopState(sbv, i, FALSE)
     ELSE IF b.size <= 0 \/ b.pos >= End(sb)
     THEN LoopState(change_sblock_status(sbv, i, bad_sector), i, FALSE)
     ELSE IF b = BlockOf(sb) THEN LoopState(sbv, i, FALSE)
     ELSE IF b.pos = sb.pos THEN LoopState(sbv, i, FALSE)
     ELSE LET c == Block(sb.pos, b.pos - sb.pos)
          IN LoopState(change_chunk_status(sbv, d, c, bad_sector), i - 1,
                       ~chunk_in_domain(sbv, d, c))

\* do_logic_ops, case m_and, on in-domain sblock i
and_case(sbv, d, logbook2, i) ==
  LET sb == sbv[i]
      b  == find_chunk(logbook2.sbv, logbook2.domain, BlockOf(sb), finished)
  IN IF sb.status # finished THEN LoopState(sbv, i, FALSE)
     ELSE IF b.size <= 0 \/ b.pos >= End(sb)
     THEN LoopState(change_sblock_status(sbv, i, bad_sector), i, FALSE)
     ELSE IF b = BlockOf(sb) THEN LoopState(sbv, i, FALSE)
     ELSE IF b.pos = sb.pos
     THEN LoopState(split_sblock_by(sbv, End(b), i), i, FALSE)
     ELSE LET c == Block(sb.pos, b.pos - sb.pos)
          IN LoopState(change_chunk_status(sbv, d, c, bad_sector), i - 1,
                       ~chunk_in_domain(sbv, d, c))

\* do_logic_ops, case m_or, on in-domain sblock i
or_case(sbv, d, logbook2, i) ==
  LET sb == sbv[i]
      b  == find_chunk(logbook2.sbv, logbook2.domain, BlockOf(sb), finished)
  IN IF sb.status = finished THEN LoopState(sbv, i, FALSE)
     ELSE IF b.size <= 0 \/ b.pos >= End(sb) THEN LoopState(sbv, i, FALSE)
     ELSE IF b = BlockOf(sb)
     THEN LoopState(change_sblock_status(sbv, i, finished), i, FALSE)
     ELSE IF b.pos = sb.pos
     THEN LoopState(change_chunk_status(sbv, d, b, finished), i - 1,
                    ~chunk_in_domain(sbv, d, b))
     ELSE LoopState(split_sblock_by(sbv, End(b), i), i, FALSE)

\* case m_xor with the new status taken as in case m_or
xor_case_as_or(sbv, d, logbook2, i) ==
  LET sb == sbv[i]
      st == finished
      b  == find_chunk(logbook2.sbv, logbook2.domain, BlockOf(sb), finished)
  IN IF b.size <= 0 \/ b.pos >= End(sb) THEN LoopState(sbv, i, FALSE)
     ELSE IF b = BlockOf(sb)
     THEN LoopState(change_sblock_status(sbv, i, st), i, FALSE)
     ELSE IF b.pos = sb.pos
     THEN LoopState(change_chunk_status(sbv, d, b, st), i - 1,
                    ~chunk_in_domain(sbv, d, b))
     ELSE LoopState(split_sblock_by(sbv, End(b), i), i, FALSE)

\* do_logic_ops, case m_xor, on in-domain sblock i
xor_case(sbv, d, logbook2, i) ==
  LET sb == sbv[i]
      st == IF sb.status = finished THEN bad_sector ELSE finished
      b  == find_chunk(logbook2.sbv, logbook2.domain, BlockOf(sb), finished)
  IN IF b.size <= 0 \/ b.pos >= End(sb) THEN LoopState(sbv, i, FALSE)
     ELSE IF b = BlockOf(sb)
     THEN LoopState(change_sblock_status(sbv, i, st), i, FALSE)
     ELSE IF b.pos = sb.pos
     THEN LoopState(change_chunk_status(sbv, d, b, st), i - 1,
                    ~chunk_in_domain(sbv, d, b))
     ELSE LoopState(split_sblock_by(sbv, End(b), i), i, FALSE)

\* The switch of do_logic_ops
logic_case(sbv, d, logbook2, i, program_mode) ==
  CASE program_mode = "m_and" -> and_case(sbv, d, logbook2, i)
    [] program_mode = "m_or"  -> or_case(sbv, d, logbook2, i)
    [] program_mode = "m_xor" -> xor_case(sbv, d, logbook2, i)

\* The for loop of do_logic_ops that does not look at the domain
RECURSIVE logic_loop_all(_, _, _, _, _)
logic_loop_all(sbv, d, logbook2, i, program_mode) ==
  IF i > Len(sbv) THEN LoopState(sbv, i, FALSE)
  ELSE LET r == logic_case(sbv, d, logbook2, i, program_mode)
       IN IF r.panic THEN r
          ELSE logic_loop_all(r.sbv, d, logbook2, r.i + 1, program_mode)

\* The for loop of do_logic_ops from index i on
RECURSIVE logic_loop(_, _, _, _, _)
logic_loop(sbv, d, logbook2, i, program_mode) ==
  IF i > Len(sbv) THEN LoopState(sbv, i, FALSE)
  ELSE IF ~DomainIncludes(d, sbv[i])
  THEN IF DomainLess(d, sbv[i]) THEN LoopState(sbv, i, FALSE)
       ELSE logic_loop(sbv, d, logbook2, i + 1, program_mode)
  ELSE LET r == logic_case(sbv, d, logbook2, i, program_mode)
       IN IF r.panic THEN r
          ELSE logic_loop(r.sbv, d, logbook2, r.i + 1, program_mode)

\* do_logic_ops( domain, logname, second_logname, program_mode )
do_logic_ops(dom, file1, file2, program_mode, fclose_ok) ==
  LET logbook  == Logbook(dom, file1)
      logbook2 == Logbook(dom, file2)
      v1 == verify_logname_and_domain(logbook)
      v2 == verify_logname_and_domain(logbook2)
  IN IF v1 # NoExit THEN Outcome("exit", v1, NoFile)
     ELSE IF v2 # NoExit THEN Outcome("exit", v2, NoFile)
     ELSE LET r == logic_loop(logbook.sbv, logbook.domain, logbook2, 1,
                              program_mode)
          IN IF r.panic THEN Outcome("panic", 3, NoFile)
             ELSE Outcome("return", IF fclose_ok THEN 0 ELSE 1,
                          compact_sblock_vector(r.sbv))

\* std::string::find( ch ): first index of ch in str, 0 when absent
StrFind(str, ch) ==
  LET S == { j \in 1..Len(str) : str[j] = ch }
  IN IF S = {} THEN 0 ELSE CHOOSE j \in S : \A k \in S : j <= k

\* The scan of arg by set_types from character i on: p tells which of
\* types1 / types2 is appended to
RECURSIVE set_types_scan(_, _, _, _, _)
set_types_scan(arg, i, t1, t2, comma_found) ==
  IF i > Len(arg)
  THEN [types1 |-> t1, types2 |-> t2, error |-> FALSE]
  ELSE IF arg[i] = ","
  THEN IF comma_found THEN [types1 |-> t1, types2 |-> t2, error |-> TRUE]
       ELSE set_types_scan(arg, i + 1, t1, t2, TRUE)
  ELSE IF ~isstatus(arg[i])
  THEN [types1 |-> t1, types2 |-> t2, error |-> TRUE]
  ELSE IF comma_found
  THEN set_types_scan(arg, i + 1, t1, Append(t2, arg[i]), comma_found)
  ELSE set_types_scan(arg, i + 1, Append(t1, arg[i]), t2, comma_found)

\* types2.append( n, ch )
RECURSIVE StrPad(_, _, _)
StrPad(str, n, ch) == IF n <= 0 THEN str ELSE StrPad(Append(str, ch), n - 1, ch)

\* set_types padding types2 with its first character
set_types_pad_first(arg) ==
  LET r == set_types_scan(arg, 1, << >>, << >>, FALSE)
      error == r.error \/ Len(r.types1) = 0 \/ Len(r.types2) = 0
  IN IF error THEN [types1 |-> r.types1, types2 |-> r.types2, error |-> TRUE]
     ELSE IF Len(r.types1) > Len(r.types2)
     THEN [types1 |-> r.types1,
           types2 |-> StrPad(r.types2, Len(r.types1) - Len(r.types2),
                             r.types2[1]),
           error  |-> FALSE]
     ELSE [types1 |-> r.types1, types2 |-> r.types2, error |-> FALSE]

\* set_types( arg, types1, types2 ) of option -a
set_types(arg) ==
  LET r == set_types_scan(arg, 1, << >>, << >>, FALSE)
      error == r.error \/ Len(r.types1) = 0 \/ Len(r.types2) = 0
  IN IF error THEN [types1 |-> r.types1, types2 |-> r.types2, error |-> TRUE]
     ELSE IF Len(r.types1) > Len(r.types2)
     THEN [types1 |-> r.types1,
           types2 |-> StrPad(r.types2, Len(r.types1) - Len(r.types2),
                             r.types2[Len(r.types2)]),
           error  |-> FALSE]
     ELSE [types1 |-> r.types1, types2 |-> r.types2, error |-> FALSE]

\* The loop of change_types leaving at the first sblock out of the domain
RECURSIVE change_types_loop_break(_, _, _, _, _)
change_types_loop_break(sbv, d, types1, types2, i) ==
  IF i > Len(sbv) THEN sbv
  ELSE IF ~DomainIncludes(d, sbv[i]) THEN sbv
  ELSE LET j == StrFind(types1, sbv[i].status)
       IN IF j # 0
          THEN change_types_loop_break(change_sblock_status(sbv, i, types2[j]),
                                       d, types1, types2, i + 1)
          ELSE change_types_loop_break(sbv, d, types1, types2, i + 1)

\* The for loop of change_types from index i on
RECURSIVE change_types_loop(_, _, _, _, _)
change_types_loop(sbv, d, types1, types2, i) ==
  IF i > Len(sbv) THEN sbv
  ELSE IF ~DomainIncludes(d, sbv[i])
  THEN IF DomainLess(d, sbv[i]) THEN sbv
       ELSE change_types_loop(sbv, d, types1, types2, i + 1)
  ELSE LET j == StrFind(types1, sbv[i].status)
       IN IF j # 0
          THEN change_types_loop(change_sblock_status(sbv, i, types2[j]),
                                 d, types1, types2, i + 1)
          ELSE change_types_loop(sbv, d, types1, types2, i + 1)

\* change_types( domain, logname, types1, types2 )
change_types(dom, file1, types1, types2, fclose_ok) ==
  LET logbook == Logbook(dom, file1)
      v1 == verify_logname_and_domain(logbook)
  IN IF v1 # NoExit THEN Outcome("exit", v1, NoFile)
     ELSE Outcome("return", IF fclose_ok THEN 0 ELSE 1,
                  compact_sblock_vector(
                    change_types_loop(logbook.sbv, logbook.domain,
                                      types1, types2, 1)))

\* The strings of case m_invert in main
invert_types1 == << "?", "*", "/", "-", "+" >>
invert_types2 == << "+", "+", "+", "+", "-" >>

\* Domain::operator!=
DomainDiffer(d1, d2) == d1 # d2

\* The loop of compare_logfiles comparing only the status of the sblocks
RECURSIVE compare_loop_status_only(_, _, _, _)
compare_loop_status_only(sbv, d, sbv2, i) ==
  IF i > Len(sbv) THEN 0
  ELSE IF ~DomainIncludes(d, sbv[i])
  THEN IF DomainLess(d, sbv[i]) THEN 0
       ELSE compare_loop_status_only(sbv, d, sbv2, i + 1)
  ELSE LET j == find_index(sbv2, sbv[i].pos)
       IN IF j = 0 \/ sbv2[j].status # sbv[i].status THEN 1
          ELSE compare_loop_status_only(sbv, d, sbv2, i + 1)

\* The for loop of compare_logfiles from index i on: the retval
RECURSIVE compare_loop(_, _, _, _)
compare_loop(sbv, d, sbv2, i) ==
  IF i > Len(sbv) THEN 0
  ELSE IF ~DomainIncludes(d, sbv[i])
  THEN IF DomainLess(d, sbv[i]) THEN 0
       ELSE compare_loop(sbv, d, sbv2, i + 1)
  ELSE LET j == find_index(sbv2, sbv[i].pos)
       IN IF j = 0 \/ sbv2[j] # sbv[i] THEN 1
          ELSE compare_loop(sbv, d, sbv2, i + 1)

\* compare_logfiles without the comparison of the two domains
compare_logfiles_no_domain_test(dom, file1, file2) ==
  LET logbook  == Logbook(dom, file1)
      logbook2 == Logbook(dom, file2)
      v1 == verify_logname_and_domain(logbook)
      v2 == verify_logname_and_domain(logbook2)
  IN IF v1 # NoExit THEN Outcome("exit", v1, NoFile)
     ELSE IF v2 # NoExit THEN Outcome("exit", v2, NoFile)
     ELSE Outcome("return",
                  compare_loop(logbook.sbv, logbook.domain, logbook2.sbv, 1),
                  NoFile)

\* compare_logfiles( domain, logname, second_logname )
compare_logfiles(dom, file1, file2) ==
  LET logbook  == Logbook(dom, file1)
      logbook2 == Logbook(dom, file2)
      v1 == verify_logname_and_domain(logbook)
      v2 == verify_logname_and_domain(logbook2)
  IN IF v1 # NoExit THEN Outcome("exit", v1, NoFile)
     ELSE IF v2 # NoExit THEN Outcome("exit", v2, NoFile)
     ELSE IF DomainDiffer(logbook.domain, logbook2.domain)
     THEN Outcome("return", 1, NoFile)
     ELSE Outcome("return",
                  compare_loop(logbook.sbv, logbook.domain, logbook2.sbv, 1),
                  NoFile)

\* The loop of test_if_done leaving at the first sblock out of the domain
RECURSIVE not_done_break(_, _, _)
not_done_break(sbv, d, i) ==
  IF i > Len(sbv) THEN FALSE
  ELSE IF ~DomainIncludes(d, sbv[i]) THEN FALSE
  ELSE IF sbv[i].status # finished THEN TRUE
  ELSE not_done_break(sbv, d, i + 1)

\* The for loop of test_if_done from index i on: TRUE when a non-finished
\* sblock of the domain is met
RECURSIVE not_done(_, _, _)
not_done(sbv, d, i) ==
  IF i > Len(sbv) THEN FALSE
  ELSE IF ~DomainIncludes(d, sbv[i])
  THEN IF DomainLess(d, sbv[i]) THEN FALSE ELSE not_done(sbv, d, i + 1)
  ELSE IF sbv[i].status # finished THEN TRUE
  ELSE not_done(sbv, d, i + 1)

\* test_if_done not looking at the result of std::remove
test_if_done_unchecked_remove(dom, file1, del, remove_ok) ==
  LET logbook == Logbook(dom, file1)
      v1 == verify_logname_and_domain(logbook)
  IN IF v1 # NoExit
     THEN [outcome |-> Outcome("exit", v1, NoFile), removed |-> FALSE]
     ELSE IF not_done(logbook.sbv, logbook.domain, 1)
     THEN [outcome |-> Outcome("return", 1, NoFile), removed |-> FALSE]
     ELSE IF ~del
     THEN [outcome |-> Outcome("return", 0, NoFile), removed |-> FALSE]
     ELSE [outcome |-> Outcome("return", 0, NoFile), removed |-> remove_ok]

\* test_if_done( domain, logname, del ): the outcome and whether logname
\* was removed; remove_ok is the result of std::remove
test_if_done(dom, file1, del, remove_ok) ==
  LET logbook == Logbook(dom, file1)
      v1 == verify_logname_and_domain(logbook)
  IN IF v1 # NoExit
     THEN [outcome |-> Outcome("exit", v1, NoFile), removed |-> FALSE]
     ELSE IF not_done(logbook.sbv, logbook.domain, 1)
     THEN [outcome |-> Outcome("return", 1, NoFile), removed |-> FALSE]
     ELSE IF ~del
     THEN [outcome |-> Outcome("return", 0, NoFile), removed |-> FALSE]
     ELSE IF ~remove_ok
     THEN [outcome |-> Outcome("return", 1, NoFile), removed |-> FALSE]
     ELSE [outcome |-> Outcome("return", 0, NoFile), removed |-> TRUE]

\* ------------------------------------------------------------------ inputs
Positions == 0 .. (MaxPos - 1)

\* The logfile with one sblock per byte of [lo, hi), f giving the statuses
RECURSIVE ByteFile(_, _, _)
ByteFile(f, lo, hi) ==
  IF lo >= hi THEN << >>
  ELSE << Sblock(Block(lo, 1), f[lo]) >> \o ByteFile(f, lo + 1, hi)

\* The logfiles over statuses S that cover the interval [lo, hi), in the
\* compact form that write_logfile emits
FilesOn(S, lo, hi) ==
  { compact_sblock_vector(ByteFile(f, lo, hi)) : f \in [lo..(hi - 1) -> S] }

\* The logfiles over statuses S that cover an interval of Positions
Files(S) ==
  UNION { FilesOn(S, p[1], p[2]) :
            p \in { q \in Positions \X (1..MaxPos) : q[1] < q[2] } }

\* The logfiles over statuses S that cover all of Positions
FullFiles(S) == FilesOn(S, 0, MaxPos)

\* The logfiles over statuses S that cover all of Positions, or all but the
\* first or the last of them
WideFiles(S) ==
  FullFiles(S) \cup FilesOn(S, 1, MaxPos) \cup FilesOn(S, 0, MaxPos - 1)

\* The blocks of the maximal runs of the positions of P from lo on
RECURSIVE Runs(_, _)
Runs(P, lo) ==
  IF \A p \in P : p < lo THEN << >>
  ELSE LET a == CHOOSE p \in P : p >= lo /\ \A q \in P : q >= lo => p <= q
           e == CHOOSE x \in a..MaxPos :
                  /\ \A q \in a..x : q \in P
                  /\ (x + 1) \notin P
       IN << Block(a, e - a + 1) >> \o Runs(P, e + 1)

\* Domain( ipos, max_size, domain_logfile_name ): a window, narrowed by -m
\* to the finished blocks of a logfile
Domains == { IF P = {} THEN EmptyDomain ELSE Runs(P, 0) : P \in SUBSET Positions }

LogicModes == {"m_and", "m_or", "m_xor"}

\* Arguments of option -a: two type strings and what separates them
Types1 ==
  { << non_tried >>, << non_trimmed >>,
    << non_tried, non_trimmed >>, << non_trimmed, non_tried >>,
    << non_tried, non_tried >>,
    << non_tried, non_trimmed, bad_sector >>,
    << non_tried, non_tried, non_trimmed >> }

Types2 ==
  { << bad_sector >>, << non_trimmed >>, << non_tried >>,
    << non_trimmed, non_tried >>, << non_trimmed, bad_sector >>,
    << bad_sector, non_tried >>,
    << bad_sector, non_tried, non_trimmed >> }

\* Arguments that set_types rejects: an empty string, a second comma, a
\* character that is no status
BadArgs ==
  { << ",", bad_sector >>, << non_tried, "," >>, << non_tried >>,
    << non_tried, ",", bad_sector, ",", non_tried >>,
    << "x", ",", bad_sector >>, << non_tried, ",", "x" >> }

ChangeArgs ==
  { t1 \o << "," >> \o t2 : t1 \in Types1, t2 \in Types2 } \cup BadArgs

\* ------------------------------------------------------------------- state
VARIABLES
  program_mode,     \* the operation chosen on the command line
  domain,           \* Domain domain( ipos, max_size, domain_logfile_name )
  logname,          \* the contents of the logfile named on the command line
  second_logname,   \* the contents of the logfile of -p, -x, -y, -z
  arg,              \* the argument of -a
  sys_ok,           \* whether fclose( stdout ) / remove( logname ) succeeds
  pc,               \* "main" before the command runs, "done" after
  outcome,          \* how the command ended and what it wrote
  removed,          \* whether logname was unlinked
  hardbs,           \* the sector size of -b
  ipos,             \* the input position of -i
  opos,             \* the output position of -o, -1 when not given
  force,            \* whether -f was given
  stdin,            \* the lines of the standard input
  sblock_vector,    \* the sblocks of a Logbook between two mutator calls
  last_call,        \* the mutator that returned last
  signum_,          \* io.cc: the signal caught, 0 when none
  handler,          \* the disposition of each signal
  delivered,        \* the signals delivered since set_signals, and how each
                    \* was disposed of
  polled,           \* what interrupted() returned, "none" when it was not
                    \* called since the last signal
  disk,             \* the files at the mapfile's path and at its temporary
  pre_flush,        \* the mapfile as it was when the latest flush began
  post_flush,       \* the mapfile that the latest flush writes
  flushes,          \* the flushes begun so far
  bad_sectors,      \* the sectors of the input file that cannot be read
  max_retries,      \* the retry passes of -r, -1 for no limit
  retry,            \* the retry passes finished in this run
  current_pos,      \* where the current retry pass goes on
  interrupts,       \* the interrupts so far
  ides,             \* do_rescue: the descriptor of the infile
  idvd,             \* do_rescue: the handle of the input DVD
  odes,             \* do_rescue: the descriptor of the outfile
  open_logs,        \* the loggers whose file is open
  sz,               \* readblock, writeblock: the bytes moved so far
  errno,            \* the C library's errno
  last_n,           \* what the latest read or write call returned
  eintrs,           \* the calls in a row that ended with EINTR
  accepted,         \* the bytes that the read or write calls moved
  skipbs,           \* the initial skip size of -K
  max_skipbs,       \* the maximum skip size of -K
  skip_size,        \* the current skip distance
  skip_state,       \* "error" after a read error that the skip controller
                    \* has not acted on, "skipped" after a skip
  first_pass,       \* whether the domain was not yet scanned once
  output,           \* the sectors written to the outfile
  frames            \* the calls of sighandler that have not returned, the
                    \* innermost first

\* The state of the signal handling of io.cc
sigvars == << signum_, handler, delivered, polled, frames >>

\* The state of the mapfile flush of ddrescue
flushvars == << disk, pre_flush, post_flush, flushes >>

\* The state of the rescue engine of ddrescue
skipvars == << skipbs, max_skipbs, skip_size, skip_state, first_pass, output >>

rescuevars == << bad_sectors, max_retries, retry, current_pos, interrupts,
                 skipvars >>

\* The handles that do_rescue opens
openvars == << ides, idvd, odes, open_logs >>

\* The state of readblock and writeblock of io.cc
iovars == << sz, errno, last_n, eintrs, accepted >>

\* The state outside of ddrescuelog
elsewhere == << sigvars, flushvars, rescuevars, openvars, iovars >>

vars == << program_mode, domain, logname, second_logname, arg, sys_ok,
           pc, outcome, removed, hardbs, ipos, opos, force, stdin,
           sblock_vector, last_call, elsewhere >>

\* The signals that set_signals names, by their Linux numbers
SIGHUP  == 1
SIGINT  == 2
SIGUSR1 == 10
SIGUSR2 == 12
SIGTERM == 15

Signals == {SIGHUP, SIGINT, SIGUSR1, SIGUSR2, SIGTERM}

\* A process that has not called set_signals: no signal caught, every
\* disposition the default one
NoSignals ==
  /\ signum_ = 0
  /\ handler = [s \in Signals |-> "SIG_DFL"]
  /\ delivered = << >>
  /\ polled = "none"
  /\ frames = << >>

\* A file: whether it exists, and its lines
File(e, l) == [exists |-> e, lines |-> l]

Absent == File(FALSE, << >>)

\* No mapfile is being flushed
NoFlush ==
  /\ disk = [n \in {"map", "tmp"} |-> Absent]
  /\ pre_flush = Absent
  /\ post_flush = Absent
  /\ flushes = 0

\* No rescue is running
NoRescue ==
  /\ bad_sectors = {}
  /\ max_retries = 0
  /\ retry = 0
  /\ current_pos = 0
  /\ interrupts = 0
  /\ skipbs = 0
  /\ max_skipbs = 0
  /\ skip_size = 0
  /\ skip_state = "idle"
  /\ first_pass = FALSE
  /\ output = {}

\* Nothing is open
NoOpen ==
  /\ ides = "none"
  /\ idvd = "none"
  /\ odes = "none"
  /\ open_logs = {}

\* Neither readblock nor writeblock is running
NoIo ==
  /\ sz = 0
  /\ errno = 0
  /\ last_n = 0
  /\ eintrs = 0
  /\ accepted = 0

\* ddrescuelog handles no signal and runs none of what is modelled outside
\* of it
Elsewhere == NoSignals /\ NoFlush /\ NoRescue /\ NoOpen /\ NoIo

NoOutcome == Outcome("none", NoExit, NoFile)

\* The options that only -l and -c read: the other commands run the same
\* whatever their values
NoPositions ==
  /\ hardbs = 1
  /\ ipos = 0
  /\ opos = -1

\* The inputs that only -c reads; a command that runs in one step shows no
\* Logbook between two calls
NoStdin ==
  /\ force = FALSE
  /\ stdin = << >>
  /\ sblock_vector = << >>
  /\ last_call = "none"
  /\ Elsewhere

Init ==
  /\ pc = "main"
  /\ outcome = NoOutcome
  /\ removed = FALSE
  /\ NoPositions
  /\ NoStdin
  /\ domain \in Domains
  /\ \/ /\ program_mode \in LogicModes
        /\ logname \in FullFiles({non_tried, bad_sector, finished}) \cup {NoFile}
        /\ second_logname \in WideFiles({bad_sector, finished}) \cup {NoFile, logname}
        /\ arg = << >>
        /\ sys_ok \in (IF second_logname = logname THEN BOOLEAN ELSE {TRUE})
     \/ /\ program_mode = "m_change"
        /\ logname \in FullFiles({non_tried, non_trimmed, bad_sector}) \cup {NoFile}
        /\ second_logname = NoFile
        /\ arg \in ChangeArgs
        /\ sys_ok = TRUE
     \/ /\ program_mode = "m_invert"
        /\ logname \in FullFiles(Status) \cup {NoFile}
        /\ second_logname = NoFile
        /\ arg = << >>
        /\ sys_ok \in BOOLEAN
     \/ /\ program_mode = "m_compare"
        /\ logname \in Files({non_tried, finished}) \cup {NoFile}
        /\ second_logname \in Files({non_tried, finished}) \cup {NoFile}
        /\ arg = << >>
        /\ sys_ok = TRUE
     \/ /\ program_mode \in {"m_delete", "m_done_st"}
        /\ logname \in Files({non_tried, bad_sector, finished}) \cup {NoFile}
        /\ second_logname = NoFile
        /\ arg = << >>
        /\ sys_ok \in BOOLEAN

Finish(o, rm) ==
  /\ pc' = "done"
  /\ outcome' = o
  /\ removed' = rm
  /\ UNCHANGED << program_mode, domain, logname, second_logname, arg, sys_ok,
                  hardbs, ipos, opos, force, stdin, sblock_vector,
                  last_call, elsewhere >>

\* main, cases m_and, m_or, m_xor
DoLogicOps ==
  /\ pc = "main"
  /\ program_mode \in LogicModes
  /\ Finish(do_logic_ops(domain, logname, second_logname, program_mode,
                         sys_ok), FALSE)

\* main, case 'a' and case m_change
ChangeTypes ==
  /\ pc = "main"
  /\ program_mode = "m_change"
  /\ LET t == set_types(arg)
     IN IF t.error THEN Finish(Outcome("exit", 1, NoFile), FALSE)
        ELSE Finish(change_types(domain, logname, t.types1, t.types2,
                                 sys_ok), FALSE)

\* main, case m_invert
InvertLogfile ==
  /\ pc = "main"
  /\ program_mode = "m_invert"
  /\ Finish(change_types(domain, logname, invert_types1, invert_types2,
                         sys_ok), FALSE)

\* main, case m_compare
CompareLogfiles ==
  /\ pc = "main"
  /\ program_mode = "m_compare"
  /\ Finish(compare_logfiles(domain, logname, second_logname), FALSE)

\* main, cases m_delete and m_done_st
TestIfDone ==
  /\ pc = "main"
  /\ program_mode \in {"m_delete", "m_done_st"}
  /\ LET r == test_if_done(domain, logname, program_mode = "m_delete", sys_ok)
     IN Finish(r.outcome, r.removed)

Next ==
  \/ DoLogicOps
  \/ ChangeTypes
  \/ InvertLogfile
  \/ CompareLogfiles
  \/ TestIfDone

Spec == Init /\ [][Next]_vars

\* ------------------------------------------------------- reading the maps
\* The status of byte p in the sblock vector sbv, "none" outside of it
StatusAt(sbv, p) ==
  IF find_index(sbv, p) = 0 THEN "none" ELSE sbv[find_index(sbv, p)].status

TypeOK ==
  /\ pc \in {"main", "done"}
  /\ removed \in BOOLEAN
  /\ outcome.kind \in {"none", "return", "exit", "panic"}

\* The two logbooks as the command loads them
LA == Logbook(domain, logname)
LB == Logbook(domain, second_logname)

\* Byte p is in the effective domain of the command
InDomain(p) == DomainIncludesPos(LA.domain, p)

FinishedA(p) == StatusAt(LA.sbv, p) = finished
FinishedB(p) == StatusAt(LB.sbv, p) = finished

\* The command ran to its end and wrote a logfile
Emitted(m) ==
  pc = "done" /\ program_mode = m /\ outcome.kind = "return"

\* Some finished chunk of B begins strictly inside sblock k of logbook A,
\* which is in the domain and has (st = TRUE) or has not the status finished
ChunkBeginsInside(fin) ==
  \E k \in 1..Len(LA.sbv) : \E p \in Positions :
     /\ DomainIncludes(LA.domain, LA.sbv[k])
     /\ (LA.sbv[k].status = finished) = fin
     /\ LA.sbv[k].pos < p /\ p < End(LA.sbv[k])
     /\ FinishedB(p) /\ ~FinishedB(p - 1)

\* Some finished chunk of B is a proper head of sblock k of logbook A
ChunkIsProperHead(fin) ==
  \E k \in 1..Len(LA.sbv) : \E p \in Positions :
     /\ DomainIncludes(LA.domain, LA.sbv[k])
     /\ (LA.sbv[k].status = finished) = fin
     /\ LA.sbv[k].pos < p /\ p < End(LA.sbv[k])
     /\ ~FinishedB(p) /\ \A q \in LA.sbv[k].pos..(p - 1) : FinishedB(q)

\* ------------------------------------------------------------------ claims

\* C1 (as stated): after AND every in-domain byte that is finished in both
\* A and B is finished and every other in-domain byte is bad_sector.
C1_AndAllOthersBad ==
  Emitted("m_and") =>
    \A p \in Positions : InDomain(p) =>
      StatusAt(outcome.out, p) =
        (IF FinishedA(p) /\ FinishedB(p) THEN finished ELSE bad_sector)

\* C1 (amended): after AND every in-domain byte that is finished in both A
\* and B is finished, every in-domain byte that is finished in A but not in
\* B is bad_sector, and every in-domain byte that is not finished in A keeps
\* the status it has in A.
C1_And ==
  Emitted("m_and") =>
    \A p \in Positions : InDomain(p) =>
      StatusAt(outcome.out, p) =
        (IF ~FinishedA(p) THEN StatusAt(LA.sbv, p)
         ELSE IF FinishedB(p) THEN finished ELSE bad_sector)

\* AND has run on a finished sblock of A that B's finished chunk enters
\* strictly inside, with a non-finished in-domain byte of A left as it was
C1_Witness ==
  /\ Emitted("m_and")
  /\ ChunkBeginsInside(TRUE)
  /\ \E p \in Positions :
        InDomain(p) /\ StatusAt(LA.sbv, p) = non_tried
        /\ StatusAt(outcome.out, p) = non_tried

\* C2: after OR every in-domain byte that is finished in A or in B is
\* finished, wherever the finished chunks of B lie in the sblocks of A.
C2_Or ==
  Emitted("m_or") =>
    \A p \in Positions : (InDomain(p) /\ (FinishedA(p) \/ FinishedB(p))) =>
      StatusAt(outcome.out, p) = finished

\* C3: after XOR an in-domain byte is finished if it is finished in exactly
\* one of A and B and bad_sector if it is finished in both.
C3_Xor ==
  Emitted("m_xor") =>
    \A p \in Positions : InDomain(p) =>
      /\ (FinishedA(p) /\ FinishedB(p)) =>
           StatusAt(outcome.out, p) = bad_sector
      /\ (FinishedA(p) # FinishedB(p)) =>
           StatusAt(outcome.out, p) = finished

\* C4: self-application.  and(A, A) and or(A, A) write A back; xor(A, A)
\* has bad_sector on every byte of the domain where A is finished and the
\* status of A on every other byte.
C4_SelfApplication ==
  (pc = "done" /\ outcome.kind = "return" /\ second_logname = logname) =>
    /\ program_mode \in {"m_and", "m_or"} => outcome.out = logname
    /\ program_mode = "m_xor" =>
         \A p \in Positions :
           StatusAt(outcome.out, p) =
             (IF InDomain(p) /\ FinishedA(p) THEN bad_sector
              ELSE StatusAt(logname, p))

\* xor(A, A) has run on a logfile with finished and other bytes in the
\* domain
C4_Witness ==
  /\ Emitted("m_xor") /\ second_logname = logname
  /\ \E p, q \in Positions :
        /\ InDomain(p) /\ FinishedA(p)
        /\ InDomain(q) /\ ~FinishedA(q)
        /\ StatusAt(outcome.out, p) = bad_sector

\* What invert does to a status
Inverted(st) == IF st = finished THEN bad_sector ELSE finished

\* Two in-domain neighbours of logbook A with different statuses, neither
\* of them finished: invert gives them the same status during its pass
InvertMakesEqualNeighbours ==
  \E k \in 1..(Len(LA.sbv) - 1) :
     /\ DomainIncludes(LA.domain, LA.sbv[k])
     /\ DomainIncludes(LA.domain, LA.sbv[k + 1])
     /\ LA.sbv[k].status # finished /\ LA.sbv[k + 1].status # finished

RawTypes == set_types_scan(arg, 1, << >>, << >>, FALSE)

\* Character j of the second string right-padded with its last character
PaddedT2(j) ==
  IF j <= Len(RawTypes.types2) THEN RawTypes.types2[j]
  ELSE RawTypes.types2[Len(RawTypes.types2)]

UnfinishedMeetsDomain(k) ==
  /\ logname[k].status # finished
  /\ \E p \in Positions : includes_pos(logname[k], p) /\ InDomain(p)

\* C7: done-status returns 0 if and only if every byte of the effective
\* domain is finished in the logfile, and 1 whenever a non-finished sblock
\* of the file meets the domain, also when it only partly overlaps it.
C7_DoneStatus ==
  (pc = "done" /\ program_mode = "m_done_st" /\ logname # NoFile) =>
    /\ outcome.status = 0 <=> (\A p \in Positions : InDomain(p) => FinishedA(p))
    /\ (\E k \in 1..Len(logname) : UnfinishedMeetsDomain(k)) =>
         outcome.status = 1

\* done-status has returned 1 for a non-finished sblock of the file that
\* lies partly inside and partly outside the domain
C7_Witness ==
  /\ pc = "done" /\ program_mode = "m_done_st" /\ outcome.status = 1
  /\ \E k \in 1..Len(logname) :
        /\ UnfinishedMeetsDomain(k)
        /\ \E p \in Positions : includes_pos(logname[k], p) /\ ~InDomain(p)
        /\ \A j \in 1..Len(logname) : j # k => logname[j].status = finished

\* C8 (as stated): delete-if-done.  Whenever the command exits with status
\* 0 the logfile has been unlinked, and whenever some in-domain byte is not
\* finished the logfile is left in place and the status is 1.
C8_DeleteAlways ==
  (pc = "done" /\ program_mode = "m_delete") =>
    /\ outcome.status = 0 => removed
    /\ (\E p \in Positions : InDomain(p) /\ ~FinishedA(p)) =>
         (~removed /\ outcome.status = 1)

\* C8 (amended): whenever the command exits with status 0 and the
\* effective domain is not empty the logfile has been unlinked; with an
\* empty domain the command exits with status 0 and leaves the logfile in
\* place; whenever some in-domain byte is not finished the logfile is left
\* in place and the status is 1.
C8_DeleteIfDone ==
  (pc = "done" /\ program_mode = "m_delete" /\ logname # NoFile) =>
    /\ (outcome.status = 0 /\ DomainSize(LA.domain) # 0) => removed
    /\ DomainSize(LA.domain) = 0 => (outcome.status = 0 /\ ~removed)
    /\ (\E p \in Positions : InDomain(p) /\ ~FinishedA(p)) =>
         (~removed /\ outcome.status = 1)

\* delete-if-done has unlinked a logfile that is finished in the domain and
\* has a non-finished sblock outside of it
C8_Witness ==
  /\ pc = "done" /\ program_mode = "m_delete" /\ removed
  /\ outcome.status = 0
  /\ \E p \in Positions : InDomain(p)
  /\ \E k \in 1..Len(logname) : logname[k].status # finished

\* Byte p has the same status in both logbooks
SameStatus(p) == StatusAt(LA.sbv, p) = StatusAt(LB.sbv, p)

\* C9 (as stated): compare returns 0 only when the effective domains of
\* the two logfiles are equal and every in-domain byte has the same status
\* in both, and returns 1 whenever some in-domain byte differs in status.
C9_CompareAlways ==
  (pc = "done" /\ program_mode = "m_compare"
   /\ logname # NoFile /\ second_logname # NoFile) =>
    /\ outcome.status = 0 =>
         /\ LA.domain = LB.domain
         /\ \A p \in Positions : InDomain(p) => SameStatus(p)
    /\ (\E p \in Positions : InDomain(p) /\ ~SameStatus(p)) =>
         outcome.status = 1

\* C9 (amended): when the effective domains of both logfiles are not empty,
\* compare returns 0 only when the two domains are equal and every
\* in-domain byte has the same status in both, and returns 1 whenever some
\* in-domain byte differs in status; when the effective domain of logfile
\* A, or else of logfile B, is empty the command exits with status 0
\* without comparing.
C9_Compare ==
  (pc = "done" /\ program_mode = "m_compare"
   /\ logname # NoFile /\ second_logname # NoFile) =>
    IF DomainSize(LA.domain) = 0 \/ DomainSize(LB.domain) = 0
    THEN outcome.kind = "exit" /\ outcome.status = 0
    ELSE /\ outcome.kind = "return"
         /\ outcome.status = 0 =>
              /\ LA.domain = LB.domain
              /\ \A p \in Positions : InDomain(p) => SameStatus(p)
         /\ (\E p \in Positions : InDomain(p) /\ ~SameStatus(p)) =>
              outcome.status = 1

\* compare has returned 1 for two logfiles with the same non-empty domain
\* that differ in one in-domain byte and agree in another
C9_Witness ==
  /\ pc = "done" /\ program_mode = "m_compare" /\ outcome.kind = "return"
  /\ outcome.status = 1
  /\ LA.domain = LB.domain
  /\ \E p, q \in Positions :
        InDomain(p) /\ ~SameStatus(p) /\ InDomain(q) /\ SameStatus(q)

\* C10: compare is symmetric and reflexive: compare(A, B) has the status
\* of compare(B, A), and compare(A, A) has status 0.
C10_CompareSymmetric ==
  (pc = "done" /\ program_mode = "m_compare"
   /\ logname # NoFile /\ second_logname # NoFile) =>
    /\ outcome.status = compare_logfiles(domain, second_logname, logname).status
    /\ second_logname = logname => outcome.status = 0

\* compare has returned 1 for two logfiles of equal domain where the sblock
\* of B that holds the start of an sblock of A has the same status and
\* another size
C10_Witness ==
  /\ pc = "done" /\ program_mode = "m_compare" /\ outcome.kind = "return"
  /\ outcome.status = 1
  /\ LA.domain = LB.domain
  /\ \E k \in 1..Len(LA.sbv) :
        LET j == find_index(LB.sbv, LA.sbv[k].pos)
        IN /\ DomainIncludes(LA.domain, LA.sbv[k])
           /\ j # 0
           /\ LB.sbv[j].status = LA.sbv[k].status
           /\ LB.sbv[j].size # LA.sbv[k].size

\* =================================================== list-blocks (-l)
MaxHardbs == 3         \* sector sizes are 1 .. MaxHardbs

\* Division of long long: the quotient is truncated toward zero
LLDiv(a, b) == IF a >= 0 THEN a \div b ELSE 0 - ((0 - a) \div b)

\* State of the loops of to_badblocks: last_block, the lines printed so far
\* and whether internal_error was hit
ListState(l, o, p) == [last_block |-> l, out |-> o, panic |-> p]

\* The inner loop of to_badblocks that also prints a block equal to
\* last_block
RECURSIVE block_loop_print_equal(_, _, _, _)
block_loop_print_equal(block, e, bs, s) ==
  IF s.panic \/ ~(block * bs < e) THEN s
  ELSE IF block >= s.last_block
  THEN block_loop_print_equal(block + 1, e, bs,
                              ListState(block, Append(s.out, block), FALSE))
  ELSE ListState(s.last_block, s.out, TRUE)

\* The inner loop of to_badblocks: the blocks from block on that begin
\* before e
RECURSIVE block_loop(_, _, _, _)
block_loop(block, e, bs, s) ==
  IF s.panic \/ ~(block * bs < e) THEN s
  ELSE IF block > s.last_block
  THEN block_loop(block + 1, e, bs,
                  ListState(block, Append(s.out, block), FALSE))
  ELSE IF block < s.last_block
  THEN ListState(s.last_block, s.out, TRUE)
  ELSE block_loop(block + 1, e, bs, s)

\* The outer loop of to_badblocks, from sblock i on
RECURSIVE list_loop(_, _, _, _, _, _, _)
list_loop(sbv, d, i, offset, bs, blocktypes, s) ==
  IF s.panic \/ i > Len(sbv) THEN s
  ELSE LET sb == sbv[i]
       IN IF ~DomainIncludes(d, sb)
          THEN IF DomainLess(d, sb) THEN s
               ELSE list_loop(sbv, d, i + 1, offset, bs, blocktypes, s)
          ELSE IF \A k \in 1..Len(blocktypes) : blocktypes[k] # sb.status
          THEN list_loop(sbv, d, i + 1, offset, bs, blocktypes, s)
          ELSE list_loop(sbv, d, i + 1, offset, bs, blocktypes,
                         block_loop(LLDiv(sb.pos + offset, bs),
                                    End(sb) + offset, bs, s))

to_badblocks(offset, dom, file, bs, blocktypes) ==
  LET logbook == Logbook(dom, file)
      v       == verify_logname_and_domain(logbook)
  IN IF v # NoExit THEN Outcome("exit", v, << >>)
     ELSE LET s == list_loop(logbook.sbv, logbook.domain, 1, offset, bs,
                             blocktypes, ListState(-1, << >>, FALSE))
          IN IF s.panic THEN Outcome("panic", 3, s.out)
             ELSE Outcome("return", 0, s.out)

\* Arguments of option -l that check_types accepts
ListTypes ==
  { << bad_sector >>, << non_tried >>, << bad_sector, non_tried >> }

\* Domain( ipos, max_size, domain_logfile_name ) begins at ipos or after it
DomainFrom(p) == { d \in Domains : d = EmptyDomain \/ d[1].pos >= p }

\* -l with -b, -i, -o: getnum keeps hardbs positive and both positions
\* non-negative
InitList ==
  /\ pc = "main"
  /\ outcome = NoOutcome
  /\ removed = FALSE
  /\ program_mode = "m_list"
  /\ hardbs \in 1..MaxHardbs
  /\ ipos \in Positions
  /\ opos \in {-1} \cup Positions
  /\ domain \in DomainFrom(ipos)
  /\ logname \in Files({non_tried, bad_sector}) \cup {NoFile}
  /\ second_logname = NoFile
  /\ arg \in ListTypes
  /\ sys_ok = TRUE
  /\ NoStdin

\* main, line 588 and case m_list
ToBadblocks ==
  /\ pc = "main"
  /\ program_mode = "m_list"
  /\ LET o == IF opos < 0 THEN ipos ELSE opos
     IN Finish(to_badblocks(o - ipos, domain, logname, hardbs, arg), FALSE)

NextList == ToBadblocks

SpecList == InitList /\ [][NextList]_vars

\* The offset that main hands to to_badblocks
ListOffset == (IF opos < 0 THEN ipos ELSE opos) - ipos

\* Sblock k of the loaded logfile is in the domain and of a listed type
Listed(k) ==
  /\ DomainIncludes(LA.domain, LA.sbv[k])
  /\ \E t \in 1..Len(arg) : arg[t] = LA.sbv[k].status

\* Sblock k overlaps the block n of hardbs bytes of the output file
Overlaps(k, n) ==
  /\ n * hardbs < End(LA.sbv[k]) + ListOffset
  /\ (n + 1) * hardbs > LA.sbv[k].pos + ListOffset

BlockNumbers == (0 - 2 * MaxPos - 1) .. (2 * MaxPos + 1)

ListRan == pc = "done" /\ program_mode = "m_list" /\ outcome.kind # "exit"

\* C11: list-blocks never reaches "block out of order", and prints, in
\* strictly ascending order, exactly the numbers of the hardbs-sized blocks
\* that an in-domain sblock of a selected type overlaps.
C11_ListBlocks ==
  ListRan =>
    /\ outcome.kind = "return"
    /\ outcome.status = 0
    /\ \A j \in 1..(Len(outcome.out) - 1) : outcome.out[j] < outcome.out[j + 1]
    /\ { outcome.out[j] : j \in 1..Len(outcome.out) }
         = { n \in BlockNumbers :
               \E k \in 1..Len(LA.sbv) : Listed(k) /\ Overlaps(k, n) }

\* A negative offset, and two listed sblocks in the same block: the second
\* one prints nothing new
C11_Witness ==
  /\ ListRan
  /\ ListOffset < 0
  /\ Len(outcome.out) >= 1
  /\ \E k1, k2 \in 1..Len(LA.sbv) :
       /\ k1 < k2 /\ Listed(k1) /\ Listed(k2)
       /\ \E n \in BlockNumbers : Overlaps(k1, n) /\ Overlaps(k2, n)

\* ================================================== create-logfile (-c)
MaxLines == 2          \* the standard input has 0 .. MaxLines lines

\* long long, narrowed to 5 bits
LLONG_MAX == 15
LLONG_MIN == 0 - LLONG_MAX - 1
LongLong == LLONG_MIN .. LLONG_MAX

\* Block::Block( p, s ): a negative position is cut off, and the size is
\* limited so that pos + size <= LLONG_MAX
BlockFix(p, s) ==
  LET cut == IF s < 0 - p THEN s ELSE 0 - p
      p1  == IF p < 0 THEN 0 ELSE p
      s1  == IF p < 0 /\ s > 0 THEN s - cut ELSE s
  IN Block(p1, IF s1 < 0 \/ s1 > LLONG_MAX - p1 THEN LLONG_MAX - p1 ELSE s1)

\* Logbook::Logbook( 0, 0, domain, logname, 1, hardbs, false, force ): the
\* file is not read under -f; without a file that was read the vector is one
\* non_tried sblock of all positions, split at the borders of the domain.
LogbookCreate(dom, file, frc) ==
  IF file # NoFile /\ ~frc
  THEN [sbv |-> split_domain_border_sblocks(file, dom, 1),
        domain |-> dom, exists |-> TRUE]
  ELSE [sbv |-> split_domain_border_sblocks(
                  << Sblock(Block(0, LLONG_MAX), non_tried) >>, dom, 1),
        domain |-> dom, exists |-> FALSE]

\* Logbook::truncate_vector( end, true ): nothing is left from end on
truncate_vector(sbv, end) ==
  LET K == { k \in 1..Len(sbv) : sbv[k].pos < end }
  IN IF K = {} THEN << Sblock(Block(0, 0), non_tried) >>
     ELSE LET i == CHOOSE k \in K : \A j \in K : j <= k
          IN [ k \in 1..i |->
                 IF k = i /\ includes_pos(sbv[i], end)
                 THEN [sbv[i] EXCEPT !.size = end - sbv[i].pos]
                 ELSE sbv[k] ]

\* One line of the standard input as scanf( "%lli\n" ) reads it: n is 1
\* and block the number read, or n is 0 for a line that is no number
Line(n, block) == [n |-> n, block |-> block]

\* set_types( arg, type1, type2 ) of -c: the two statuses, or an error
set_types_create(a) ==
  IF a = << >>
  THEN [error |-> FALSE, type1 |-> finished, type2 |-> bad_sector]
  ELSE IF Len(a) # 2 \/ a[1] = a[2] \/ ~isstatus(a[1]) \/ ~isstatus(a[2])
  THEN [error |-> TRUE, type1 |-> finished, type2 |-> bad_sector]
  ELSE [error |-> FALSE, type1 |-> a[1], type2 |-> a[2]]

\* State of the loop of create_logfile: the sblock vector, and NoExit or the
\* status the loop ends the command with
CreateState(v, r) == [sbv |-> v, ret |-> r]

\* The loop of create_logfile from line k of the standard input on; ub is
\* what block * hardbs yields when the product overflows
RECURSIVE create_loop(_, _, _, _, _, _, _)
create_loop(sbv, d, bs, type1, lines, k, ub) ==
  IF k > Len(lines) THEN CreateState(sbv, NoExit)
  ELSE IF lines[k].n # 1 \/ lines[k].block > LLDiv(LLONG_MAX, bs)
  THEN CreateState(sbv, 2)
  ELSE LET prod == lines[k].block * bs
           b    == BlockFix(IF prod \in LongLong THEN prod ELSE ub, bs)
       IN IF ~DomainIncludes(d, b) \/ b.size <= 0
          THEN create_loop(sbv, d, bs, type1, lines, k + 1, ub)
          ELSE IF ~chunk_in_domain(sbv, d, b) THEN CreateState(sbv, 3)
          ELSE create_loop(change_chunk_status(sbv, d, b, type1),
                           d, bs, type1, lines, k + 1, ub)

create_logfile(dom, file, bs, type1, type2, frc, lines, ub, write_ok) ==
  LET logbook == LogbookCreate(dom, file, frc)
  IN IF logbook.exists THEN Outcome("return", 1, NoFile)
     ELSE IF DomainSize(logbook.domain) = 0 THEN Outcome("return", 0, NoFile)
     ELSE LET marked == [ k \in 1..Len(logbook.sbv) |->
                            [logbook.sbv[k] EXCEPT !.status = type2] ]
              s == create_loop(marked, logbook.domain, bs, type1, lines, 1, ub)
          IN IF s.ret = 3 THEN Outcome("panic", 3, NoFile)
             ELSE IF s.ret = 2 THEN Outcome("return", 2, NoFile)
             ELSE IF ~write_ok THEN Outcome("return", 1, NoFile)
             ELSE Outcome("return", 0,
                          truncate_vector(s.sbv,
                            End(logbook.domain[Len(logbook.domain)])))

\* Block numbers on the standard input: the ends of long long and the
\* numbers around 0
StdinBlocks == {LLONG_MIN, -1, 0, 1, 2, LLONG_MAX}

StdinLines == { Line(1, b) : b \in StdinBlocks } \cup { Line(0, 0) }

Stdins == UNION { [1..n -> StdinLines] : n \in 0..MaxLines }

\* Arguments of option -c
CreateArgs ==
  { << >>, << non_tried, finished >>, << finished, finished >>,
    << finished >> }

\* -c with -b, -f and a domain that -s, -m may bound
InitCreate ==
  /\ pc = "main"
  /\ outcome = NoOutcome
  /\ removed = FALSE
  /\ program_mode = "m_create"
  /\ hardbs \in 1..MaxHardbs
  /\ ipos = 0
  /\ opos = -1
  /\ domain \in Domains \cup { << Block(0, LLONG_MAX) >> }
  /\ logname \in {NoFile, << Sblock(Block(0, MaxPos), non_tried) >>}
  /\ second_logname = NoFile
  /\ arg \in CreateArgs
  /\ sys_ok \in BOOLEAN
  /\ force \in BOOLEAN
  /\ stdin \in Stdins
  /\ sblock_vector = << >>
  /\ last_call = "none"
  /\ Elsewhere

\* main, case 'c' and case m_create
CreateLogfile ==
  /\ pc = "main"
  /\ program_mode = "m_create"
  /\ LET t == set_types_create(arg)
     IN IF t.error THEN Finish(Outcome("exit", 1, NoFile), FALSE)
        ELSE \E ub \in LongLong :
               Finish(create_logfile(domain, logname, hardbs, t.type1,
                                     t.type2, force, stdin, ub, sys_ok),
                      FALSE)

NextCreate == CreateLogfile

SpecCreate == InitCreate /\ [][NextCreate]_vars

CreateRan == pc = "done" /\ program_mode = "m_create" /\ outcome.kind # "exit"

CreateType1 == IF arg = << >> THEN finished ELSE arg[1]
CreateType2 == IF arg = << >> THEN bad_sector ELSE arg[2]

\* Every line is a block number not greater than LLONG_MAX / hardbs
StdinValid ==
  \A k \in 1..Len(stdin) :
    stdin[k].n = 1 /\ stdin[k].block * hardbs <= LLONG_MAX

\* Byte p is in a block of hardbs bytes whose number was read and that is
\* wholly inside the domain
InReadBlock(p) ==
  \E k \in 1..Len(stdin) :
    /\ stdin[k].n = 1
    /\ stdin[k].block * hardbs <= p
    /\ p < (stdin[k].block + 1) * hardbs
    /\ \E j \in 1..Len(domain) :
         /\ domain[j].pos <= stdin[k].block * hardbs
         /\ (stdin[k].block + 1) * hardbs <= End(domain[j])

\* The mapfile was written: it covers the domain, with type1 on the bytes
\* of the read blocks and type2 elsewhere
CreateWritten ==
  /\ outcome.kind = "return"
  /\ outcome.out # NoFile
  /\ \A p \in 0..(LLONG_MAX - 1) :
       /\ DomainIncludesPos(domain, p) => StatusAt(outcome.out, p) # "none"
       /\ StatusAt(outcome.out, p) # "none" =>
            StatusAt(outcome.out, p)
              = (IF InReadBlock(p) THEN CreateType1 ELSE CreateType2)

\* The command gets to read the standard input and can write the mapfile:
\* no logfile was read, the domain is not empty, update_logfile succeeds
CreateReady ==
  /\ logname = NoFile \/ force
  /\ DomainSize(domain) > 0
  /\ sys_ok

\* C12: create, when nothing but the standard input can stop it, writes the
\* mapfile of the blocks read if every line of the standard input is a
\* block number not greater than LLONG_MAX / hardbs, and otherwise returns
\* 2 and writes nothing.
C12_Create ==
  (CreateRan /\ CreateReady) =>
    IF StdinValid THEN CreateWritten
    ELSE outcome.status = 2 /\ outcome.out = NoFile

\* ===================================================== show-status (-t)
\* The counters of do_show_status: bytes and areas per status, errors, and
\* the loop's old_status, first_block and good
ShowState(si, ar, e, os, fb, g) ==
  [size |-> si, areas |-> ar, errors |-> e,
   old_status |-> os, first_block |-> fb, good |-> g]

ShowInit ==
  ShowState([st \in Status |-> 0], [st \in Status |-> 0], 0,
            non_tried, TRUE, TRUE)

\* The loop of do_show_status in which an sblock outside the domain leaves
\* first_block and good as they are
RECURSIVE show_loop_gap_ignored(_, _, _, _)
show_loop_gap_ignored(sbv, d, i, s) ==
  IF i > Len(sbv) THEN s
  ELSE LET sb == sbv[i]
           sc == s.first_block \/ sb.status # s.old_status
           er == sb.status \notin {non_tried, finished}
       IN IF ~DomainIncludes(d, sb)
          THEN IF DomainLess(d, sb) THEN s
               ELSE show_loop_gap_ignored(sbv, d, i + 1, s)
          ELSE show_loop_gap_ignored(sbv, d, i + 1,
                 ShowState(
                   [s.size EXCEPT ![sb.status] = @ + sb.size],
                   [s.areas EXCEPT ![sb.status] = IF sc THEN @ + 1 ELSE @],
                   IF er /\ s.good THEN s.errors + 1 ELSE s.errors,
                   sb.status, FALSE, ~er))

\* The loop of do_show_status, from sblock i on
RECURSIVE show_loop(_, _, _, _)
show_loop(sbv, d, i, s) ==
  IF i > Len(sbv) THEN s
  ELSE LET sb == sbv[i]
           sc == s.first_block \/ sb.status # s.old_status
           er == sb.status \notin {non_tried, finished}
       IN IF ~DomainIncludes(d, sb)
          THEN IF DomainLess(d, sb) THEN s
               ELSE show_loop(sbv, d, i + 1,
                              [s EXCEPT !.first_block = TRUE, !.good = TRUE])
          ELSE show_loop(sbv, d, i + 1,
                 ShowState(
                   [s.size EXCEPT ![sb.status] = @ + sb.size],
                   [s.areas EXCEPT ![sb.status] = IF sc THEN @ + 1 ELSE @],
                   IF er /\ s.good THEN s.errors + 1 ELSE s.errors,
                   sb.status, FALSE, ~er))

\* do_show_status: what it prints is the counters
do_show_status(dom, file) ==
  LET logbook == Logbook(dom, file)
      v       == verify_logname_and_domain(logbook)
  IN IF v # NoExit THEN Outcome("exit", v, ShowInit)
     ELSE Outcome("return", 0,
                  show_loop(logbook.sbv, logbook.domain, 1, ShowInit))

InitStatus ==
  /\ pc = "main"
  /\ outcome = NoOutcome
  /\ removed = FALSE
  /\ program_mode = "m_status"
  /\ NoPositions
  /\ NoStdin
  /\ domain \in Domains
  /\ logname \in Files({non_tried, non_trimmed, bad_sector, finished})
                   \cup {NoFile}
  /\ second_logname = NoFile
  /\ arg = << >>
  /\ sys_ok = TRUE

\* main, case m_status
DoShowStatus ==
  /\ pc = "main"
  /\ program_mode = "m_status"
  /\ Finish(do_show_status(domain, logname), FALSE)

NextStatus == DoShowStatus

SpecStatus == InitStatus /\ [][NextStatus]_vars

ShowRan == pc = "done" /\ program_mode = "m_status" /\ outcome.kind = "return"

\* Sblock k of the loaded logfile is in the domain and neither non_tried
\* nor finished
InErrorRun(k) ==
  /\ k \in 1..Len(LA.sbv)
  /\ DomainIncludes(LA.domain, LA.sbv[k])
  /\ LA.sbv[k].status \in {non_trimmed, non_split, bad_sector}

\* C13: the errors that show-status reports are the maximal runs of
\* consecutive in-domain sblocks that are neither non_tried nor finished;
\* an sblock outside the domain ends a run.
C13_Errors ==
  ShowRan =>
    outcome.out.errors
      = Cardinality({ k \in 1..Len(LA.sbv) :
                        InErrorRun(k) /\ ~InErrorRun(k - 1) })

\* Two runs that only a domain gap separates: the sblock in the gap has an
\* error status too
C13_Witness ==
  /\ ShowRan
  /\ outcome.out.errors = 2
  /\ \E k \in 2..Len(LA.sbv) :
       /\ InErrorRun(k - 1) /\ InErrorRun(k + 1)
       /\ ~DomainIncludes(LA.domain, LA.sbv[k])
       /\ LA.sbv[k].status = bad_sector

\* ================================================ the Logbook's mutators
\* The statuses that the mutators are called with
CallStatus == {non_tried, bad_sector, finished}

\* The chunks that change_chunk_status is called with
Chunks ==
  { Block(p, n) : p \in Positions, n \in 1..MaxPos } \cap
  { b \in [pos : Positions, size : 1..MaxPos] : End(b) <= MaxPos }

\* A Logbook right after its constructor read a logfile of one non_tried
\* sblock, and nothing else going on
InitMapbook ==
  /\ pc = "main"
  /\ outcome = NoOutcome
  /\ removed = FALSE
  /\ program_mode = "m_none"
  /\ NoPositions
  /\ force = FALSE
  /\ stdin = << >>
  /\ domain \in Domains \ {EmptyDomain}
  /\ logname = << Sblock(Block(0, MaxPos), non_tried) >>
  /\ second_logname = NoFile
  /\ arg = << >>
  /\ sys_ok = TRUE
  /\ sblock_vector = Logbook(domain, logname).sbv
  /\ last_call = "Logbook"
  /\ Elsewhere

Returned(v, name) ==
  /\ sblock_vector' = v
  /\ last_call' = name
  /\ UNCHANGED << program_mode, domain, logname, second_logname, arg, sys_ok,
                  pc, outcome, removed, hardbs, ipos, opos, force, stdin,
                  elsewhere >>

ChangeSblockStatus ==
  \E i \in 1..Len(sblock_vector), st \in CallStatus :
    Returned(change_sblock_status(sblock_vector, i, st),
             "change_sblock_status")

\* The callers hand over a chunk of one in-domain sblock
ChangeChunkStatus ==
  \E b \in Chunks, st \in CallStatus :
    /\ chunk_in_domain(sblock_vector, domain, b)
    /\ Returned(change_chunk_status(sblock_vector, domain, b, st),
                "change_chunk_status")

SplitSblockBy ==
  \E i \in 1..Len(sblock_vector), pos \in 0..MaxPos :
    Returned(split_sblock_by(sblock_vector, pos, i), "split_sblock_by")

TruncateVector ==
  \E end \in 0..MaxPos :
    Returned(truncate_vector(sblock_vector, end), "truncate_vector")

CompactSblockVector ==
  Returned(compact_sblock_vector(sblock_vector), "compact_sblock_vector")

NextMapbook ==
  \/ ChangeSblockStatus
  \/ ChangeChunkStatus
  \/ SplitSblockBy
  \/ TruncateVector
  \/ CompactSblockVector

SpecMapbook == InitMapbook /\ [][NextMapbook]_vars

Mutators ==
  { "change_sblock_status", "change_chunk_status", "split_sblock_by",
    "truncate_vector", "compact_sblock_vector" }

\* The sblocks are strictly ascending by pos
Ascending ==
  \A k \in 1..(Len(sblock_vector) - 1) :
    sblock_vector[k].pos < sblock_vector[k + 1].pos

\* Each sblock ends where the next begins
Touching ==
  \A k \in 1..(Len(sblock_vector) - 1) :
    End(sblock_vector[k]) = sblock_vector[k + 1].pos

\* No two adjacent sblocks have the same status
AdjacentDistinct ==
  \A k \in 1..(Len(sblock_vector) - 1) :
    sblock_vector[k].status # sblock_vector[k + 1].status

MutatingModes == LogicModes \cup {"m_change", "m_invert"}

\* C29: the logfile that and, or, xor, change-types or invert writes has
\* the status of logfile A at every byte outside of the effective domain,
\* and covers the extent that logfile A covers; the command changes neither
\* of the two logfiles that it was given.
C29_DomainFrame ==
  /\ [](pc = "done" /\ program_mode \in MutatingModes
           /\ outcome.out # NoFile =>
          /\ outcome.out[1].pos = logname[1].pos
          /\ End(outcome.out[Len(outcome.out)]) = End(logname[Len(logname)])
          /\ \A p \in 0 .. MaxPos :
               ~InDomain(p) => StatusAt(outcome.out, p) = StatusAt(logname, p))
  /\ [][second_logname' = second_logname /\ logname' = logname]_vars

\* xor changed logfile A inside of a domain that leaves out a finished and
\* a bad byte of it
C29_Witness ==
  /\ pc = "done"
  /\ program_mode = "m_xor"
  /\ outcome.out # NoFile
  /\ second_logname # NoFile
  /\ \E p, q, r \in Positions :
       /\ ~InDomain(p) /\ StatusAt(logname, p) = finished
       /\ ~InDomain(q) /\ StatusAt(logname, q) = bad_sector
       /\ InDomain(r) /\ StatusAt(outcome.out, r) # StatusAt(logname, r)

\* ====================================================== signals (io.cc)
MaxSignals == 3        \* at most MaxSignals signals arrive after set_signals

\* What the commands of ddrescuelog read and write, apart from pc and
\* outcome
cmdvars == << program_mode, domain, logname, second_logname, arg, sys_ok,
              removed, hardbs, ipos, opos, force, stdin, sblock_vector,
              last_call, openvars, iovars >>

\* No command of ddrescuelog is running
NoCommand ==
  /\ program_mode = "m_none"
  /\ domain = EmptyDomain
  /\ logname = NoFile
  /\ second_logname = NoFile
  /\ arg = << >>
  /\ sys_ok = TRUE
  /\ removed = FALSE
  /\ NoPositions
  /\ force = FALSE
  /\ stdin = << >>
  /\ sblock_vector = << >>
  /\ last_call = "none"

\* One delivery of a signal and the disposition it met
Delivery(sig, by) == [sig |-> sig, by |-> by]

\* sighandler that takes the latest signal
sighandler_latest(cur, signum) == IF signum > 0 THEN signum ELSE cur

\* sighandler( signum ): the new value of signum_, which is cur
sighandler(cur, signum) == IF cur = 0 /\ signum > 0 THEN signum ELSE cur

\* interrupted()
interrupted(cur) == cur > 0

InitSignals ==
  /\ pc = "main"
  /\ outcome = NoOutcome
  /\ NoCommand
  /\ NoSignals
  /\ NoFlush
  /\ NoRescue
  /\ NoOpen
  /\ NoIo

\* set_signals(), first called from "main" and again from the loop
SetSignals ==
  /\ pc \in {"main", "loop"}
  /\ pc' = "loop"
  /\ signum_' = 0
  /\ handler' = [s \in Signals |->
                   IF s \in {SIGHUP, SIGINT, SIGTERM} THEN "sighandler"
                   ELSE "SIG_IGN"]
  /\ delivered' = << >>
  /\ polled' = "none"
  /\ frames = << >>
  /\ UNCHANGED << frames, outcome, cmdvars, flushvars, rescuevars >>

\* The system delivers signal sig to the process: the handler runs, the
\* signal is ignored, or the default action ends the process
Deliver ==
  \E sig \in Signals :
    /\ pc # "done"
    /\ Len(delivered) < MaxSignals
    /\ delivered' = Append(delivered, Delivery(sig, handler[sig]))
    /\ polled' = "none"
    /\ signum_' = IF handler[sig] = "sighandler"
                  THEN sighandler(signum_, sig) ELSE signum_
    /\ IF handler[sig] = "SIG_DFL"
       THEN pc' = "done" /\ outcome' = Outcome("killed", 128 + sig, 0)
       ELSE UNCHANGED << pc, outcome >>
    /\ UNCHANGED << handler, frames, cmdvars, flushvars, rescuevars >>

\* The main loop polls interrupted() between two iterations
Poll ==
  /\ pc = "loop"
  /\ frames = << >>
  /\ polled' = IF interrupted(signum_) THEN "true" ELSE "false"
  /\ pc' = IF interrupted(signum_) THEN "signaled_exit" ELSE "loop"
  /\ UNCHANGED << signum_, handler, delivered, frames, outcome, cmdvars,
                  flushvars, rescuevars >>

\* signaled_exit(): set_signal( signum_, SIG_DFL )
RestoreDefault ==
  /\ pc = "signaled_exit"
  /\ frames = << >>
  /\ handler' = [handler EXCEPT ![signum_] = "SIG_DFL"]
  /\ pc' = "raise"
  /\ UNCHANGED << signum_, delivered, polled, frames, outcome, cmdvars,
                  flushvars, rescuevars >>

\* signaled_exit(): std::raise( signum_ ) ends the process, or fails and
\* 128 + signum_ is returned
Raise ==
  /\ pc = "raise"
  /\ frames = << >>
  /\ pc' = "done"
  /\ \E k \in {"raised", "return"} :
       outcome' = Outcome(k, 128 + signum_, signum_)
  /\ UNCHANGED << sigvars, cmdvars, flushvars, rescuevars >>

NextSignals ==
  \/ SetSignals
  \/ Deliver
  \/ Poll
  \/ RestoreDefault
  \/ Raise

SpecSignals == InitSignals /\ [][NextSignals]_vars

\* The signals for which sighandler ran since set_signals, oldest first
Caught == SelectSeq(delivered, LAMBDA x : x.by = "sighandler")

Frame(sig, at) == [sig |-> sig, at |-> at]

\* The signals whose handler is running: each is blocked until its handler
\* returns; sa_mask blocks no other signal
Handling == { frames[k].sig : k \in 1..Len(frames) }

\* The system delivers signal sig to the process: sighandler is called, on
\* top of the calls of it that have not returned, or the signal is ignored,
\* or the default action ends the process
Enter ==
  \E sig \in Signals :
    /\ pc # "done"
    /\ Len(delivered) < MaxSignals
    /\ sig \notin Handling
    /\ delivered' = Append(delivered, Delivery(sig, handler[sig]))
    /\ polled' = "none"
    /\ frames' = IF handler[sig] = "sighandler"
                 THEN << Frame(sig, "test") >> \o frames ELSE frames
    /\ IF handler[sig] = "SIG_DFL"
       THEN pc' = "done" /\ outcome' = Outcome("killed", 128 + sig, 0)
       ELSE UNCHANGED << pc, outcome >>
    /\ UNCHANGED << signum_, handler, cmdvars, flushvars, rescuevars >>

\* sighandler: if( signum_ == 0 && signum > 0 ), in the innermost call
TestSignum ==
  /\ pc # "done"
  /\ frames # << >>
  /\ Head(frames).at = "test"
  /\ frames' = IF signum_ = 0 /\ Head(frames).sig > 0
               THEN << Frame(Head(frames).sig, "set") >> \o Tail(frames)
               ELSE Tail(frames)
  /\ UNCHANGED << pc, outcome, signum_, handler, delivered, polled, cmdvars,
                  flushvars, rescuevars >>

\* sighandler: signum_ = signum, in the innermost call
SetSignum ==
  /\ pc # "done"
  /\ frames # << >>
  /\ Head(frames).at = "set"
  /\ signum_' = Head(frames).sig
  /\ frames' = Tail(frames)
  /\ UNCHANGED << pc, outcome, handler, delivered, polled, cmdvars,
                  flushvars, rescuevars >>

NextHandler ==
  \/ SetSignals
  \/ Enter
  \/ TestSignum
  \/ SetSignum
  \/ Poll
  \/ RestoreDefault
  \/ Raise

SpecHandler == InitSignals /\ [][NextHandler]_vars

\* C30: whenever no handler is running, signum_ is the first of SIGHUP,
\* SIGINT and SIGTERM that was delivered since set_signals; once signum_ is
\* set only set_signals changes it, whatever is delivered and whenever;
\* signum_ is never SIGUSR1 or SIGUSR2; a step of the handler changes
\* nothing but signum_.
C30_FirstSignalLatch ==
  /\ [](frames = << >> /\ Caught # << >> => signum_ = Caught[1].sig)
  /\ [][signum_ # 0 /\ signum_' # signum_ =>
          frames = << >> /\ signum_' = 0]_vars
  /\ [](signum_ \notin {SIGUSR1, SIGUSR2})
  /\ [][frames' # frames /\ Len(frames') <= Len(frames) =>
          UNCHANGED << pc, outcome, handler, delivered, polled, cmdvars,
                       flushvars, rescuevars >>]_vars

\* ========================================================= mapfile flush
MaxFlushes == 2        \* at most MaxFlushes flushes are begun

\* The path that a flush in place would write to: the mapfile itself
save_path_in_place(path) == path

\* The path that a flush writes to before the rename
save_path(path) == "tmp"

\* The mapbooks that the engine holds between two flushes
Mapbooks == FullFiles({non_tried, finished})

\* What the commands of ddrescuelog read and write, apart from pc and
\* sblock_vector
idlevars == << program_mode, domain, logname, second_logname, arg, sys_ok,
               removed, hardbs, ipos, opos, force, stdin, last_call,
               outcome, openvars, iovars >>

\* do_rescue before the first flush: the mapfile does not exist, or it is
\* the one the run resumes from; a temporary may be left from an earlier
\* run
InitFlush ==
  /\ pc = "loop"
  /\ outcome = NoOutcome
  /\ program_mode = "m_none"
  /\ domain = EmptyDomain
  /\ logname = NoFile
  /\ second_logname = NoFile
  /\ arg = << >>
  /\ sys_ok = TRUE
  /\ removed = FALSE
  /\ NoPositions
  /\ force = FALSE
  /\ stdin = << >>
  /\ last_call = "none"
  /\ NoSignals
  /\ NoRescue
  /\ NoOpen
  /\ NoIo
  /\ sblock_vector \in Mapbooks
  /\ \E m \in {Absent, File(TRUE, sblock_vector)},
        t \in {Absent, File(TRUE, << Sblock(Block(0, 1), finished) >>)} :
       /\ disk = [n \in {"map", "tmp"} |-> IF n = "map" THEN m ELSE t]
       /\ pre_flush = m
       /\ post_flush = m
  /\ flushes = 0

\* The engine changes the mapbook between two flushes
Mutate ==
  /\ pc = "loop"
  /\ \E v \in Mapbooks \ {sblock_vector} : sblock_vector' = v
  /\ UNCHANGED << pc, idlevars, sigvars, flushvars, rescuevars >>

\* save: the file written to is opened and truncated
BeginFlush ==
  /\ pc = "loop"
  /\ flushes < MaxFlushes
  /\ flushes' = flushes + 1
  /\ pre_flush' = disk["map"]
  /\ post_flush' = File(TRUE, sblock_vector)
  /\ disk' = [disk EXCEPT ![save_path("map")] = File(TRUE, << >>)]
  /\ pc' = "write"
  /\ UNCHANGED << sblock_vector, idlevars, sigvars, rescuevars >>

\* save: the next line is written
WriteLine ==
  /\ pc = "write"
  /\ Len(disk[save_path("map")].lines) < Len(sblock_vector)
  /\ disk' = [disk EXCEPT ![save_path("map")].lines =
                Append(@, sblock_vector[Len(@) + 1])]
  /\ UNCHANGED << pc, sblock_vector, idlevars, sigvars, rescuevars,
                  pre_flush, post_flush, flushes >>

\* save: a write fails and the flush is given up
WriteFails ==
  /\ pc = "write"
  /\ Len(disk[save_path("map")].lines) < Len(sblock_vector)
  /\ pc' = "loop"
  /\ UNCHANGED << sblock_vector, idlevars, sigvars, flushvars, rescuevars >>

\* save: all lines are written, the file is renamed to the mapfile
Rename ==
  /\ pc = "write"
  /\ Len(disk[save_path("map")].lines) = Len(sblock_vector)
  /\ disk' = IF save_path("map") = "map" THEN disk
             ELSE [disk EXCEPT !["map"] = disk[save_path("map")],
                               ![save_path("map")] = Absent]
  /\ pc' = "loop"
  /\ UNCHANGED << sblock_vector, idlevars, sigvars, rescuevars,
                  pre_flush, post_flush, flushes >>

\* The process dies at any point; the files stay as they are
Crash ==
  /\ pc \in {"loop", "write"}
  /\ pc' = "crashed"
  /\ UNCHANGED << sblock_vector, idlevars, sigvars, flushvars, rescuevars >>

NextFlush ==
  \/ Mutate
  \/ BeginFlush
  \/ WriteLine
  \/ WriteFails
  \/ Rename
  \/ Crash

SpecFlush == InitFlush /\ [][NextFlush]_vars

\* C16: at every point of a flush, a crash included, the file at the
\* mapfile's path is the complete mapfile from before the flush or the
\* complete mapfile that the flush writes.
C16_AtomicFlush ==
  disk["map"] \in {pre_flush, post_flush}

\* A crash in the middle of the write of a mapfile that differs from the
\* one on disk
C16_Witness ==
  /\ pc = "crashed"
  /\ pre_flush.exists
  /\ pre_flush # post_flush
  /\ disk["map"] = pre_flush
  /\ disk["tmp"].exists
  /\ Len(disk["tmp"].lines) > 0
  /\ Len(disk["tmp"].lines) < Len(post_flush.lines)

\* ========================================================= rescue engine
\* Sectors are the positions 0 .. MaxPos-1.
ClusterSize == 2       \* sectors that the copying phase reads at a time
DiskSize == 6          \* the sectors of the infile of a run with -K options

\* The sectors of the largest infile
Sectors == 0 .. ((IF DiskSize > MaxPos THEN DiskSize ELSE MaxPos) - 1)
MaxRetries == 2        \* -r takes -1 .. MaxRetries
MaxInterrupts == 2     \* at most MaxInterrupts interrupts arrive

\* Rb_options::default_skipbs and max_max_skipbs, 64 KiB and 1 GiB, in
\* sectors of the scale of the model
default_skipbs == 2
max_max_skipbs == 4

\* The first bad sector of block b, End(b) when b can be read
first_error(bad, b) ==
  LET E == { q \in b.pos .. (End(b) - 1) : q \in bad }
  IN IF E = {} THEN End(b) ELSE CHOOSE q \in E : \A r \in E : q <= r

\* A change of status where the chunk may be empty; the vector v and the
\* chunk b are evaluated once, before the change
change_chunk(v, d, b, st) ==
  CHOOSE r \in { IF c.size <= 0 THEN w ELSE change_chunk_status(w, d, c, st) :
                   w \in {v}, c \in {b} } : TRUE

\* The cluster that the copying phase reads next: the head of what the
\* first in-domain non_tried sblock has behind the read head; of size 0 when
\* nothing is non_tried behind the read head
next_cluster(v, d, head) ==
  LET S == { j \in 1..Len(v) : /\ v[j].status = non_tried
                               /\ DomainIncludes(d, v[j])
                               /\ End(v[j]) > head }
  IN IF S = {} THEN Block(head, 0)
     ELSE LET j == CHOOSE k \in S : \A l \in S : k <= l
              p == IF v[j].pos < head THEN head ELSE v[j].pos
              n == End(v[j]) - p
          IN Block(p, IF n < ClusterSize THEN n ELSE ClusterSize)

\* Copying of the cluster b where the sector behind a cluster that failed
\* is non_trimmed as well
copy_block_and_skipped(v, d, bad, b) ==
  LET e  == first_error(bad, b)
      sb == v[find_index(v, b.pos)]
      v1 == change_chunk(v, d, Block(b.pos, e - b.pos), finished)
      n  == IF End(b) < End(sb) /\ e < End(b) THEN End(b) + 1 - e
            ELSE End(b) - e
  IN change_chunk(v1, d, Block(e, n), non_trimmed)

\* Copying of the cluster b: what precedes the first error is finished, the
\* rest of the cluster is non_trimmed
copy_block(v, d, bad, b) ==
  LET e  == first_error(bad, b)
      v1 == change_chunk(v, d, Block(b.pos, e - b.pos), finished)
  IN change_chunk(v1, d, Block(e, End(b) - e), non_trimmed)

\* The outfile that does not get the block that was read
written_nothing(out, b) == out

\* The outfile after block b was written to it
written(out, b) == out \cup (b.pos .. (End(b) - 1))

\* The skip size after a read error: twice the size, max at most
doubled(s, max) == IF 2 * s > max THEN max ELSE 2 * s

\* The skip size after a good read that follows a skip: half of the size,
\* min at least
halved(s, min) == IF s \div 2 < min THEN min ELSE s \div 2

\* Trimming of the non_trimmed sblock sb: its first sector is read; when
\* it fails it is a bad sector and what follows it is non_scraped
trim_block(v, d, bad, sb) ==
  IF sb.pos \notin bad
  THEN change_chunk(v, d, Block(sb.pos, 1), finished)
  ELSE change_chunk(
         change_chunk(v, d, Block(sb.pos, 1), bad_sector),
         d, Block(sb.pos + 1, sb.size - 1), non_split)

\* Scraping of the non_scraped sblock sb, and a retry of the bad sblock sb:
\* its first sector is read
read_sector(v, d, bad, sb) ==
  change_chunk(v, d, Block(sb.pos, 1),
               IF sb.pos \in bad THEN bad_sector ELSE finished)

\* The order of the phases with the scraping phase left out
next_phase_no_scraping(p) ==
  IF p = "copying" THEN "trimming" ELSE "retrying"

\* The order of the phases
next_phase(p) ==
  IF p = "copying" THEN "trimming"
  ELSE IF p = "trimming" THEN "scraping"
  ELSE "retrying"

\* The mapfile written at an interrupt, with every sblock that is not
\* finished written as a bad sector
flushed_lines_bad(v) ==
  compact_sblock_vector(
    [ k \in 1..Len(v) |->
        IF v[k].status = finished THEN v[k]
        ELSE [v[k] EXCEPT !.status = bad_sector] ])

\* The mapfile written at an interrupt
flushed_lines(v) == compact_sblock_vector(v)

\* The first in-domain sblock of status st, 0 when there is none
FirstOf(st) == FirstChunkIndex(sblock_vector, domain, 1, st)

\* The first in-domain bad sblock that the retry pass has not passed, 0
\* when there is none
NextBad ==
  LET S == { j \in 1..Len(sblock_vector) :
               /\ sblock_vector[j].status = bad_sector
               /\ DomainIncludes(domain, sblock_vector[j])
               /\ End(sblock_vector[j]) > current_pos }
  IN IF S = {} THEN 0 ELSE CHOOSE j \in S : \A k \in S : j <= k

\* do_rescue hands a blank mapbook to the engine: no mapfile, no
\* --no-trim, no --no-scrape, and nothing that ends the run early
InitRescue ==
  /\ pc = "copying"
  /\ outcome = NoOutcome
  /\ program_mode = "m_none"
  /\ logname = NoFile
  /\ second_logname = NoFile
  /\ arg = << >>
  /\ sys_ok = TRUE
  /\ removed = FALSE
  /\ NoPositions
  /\ force = FALSE
  /\ stdin = << >>
  /\ last_call = "none"
  /\ NoSignals
  /\ NoFlush
  /\ NoOpen
  /\ NoIo
  /\ domain \in Domains \ {EmptyDomain}
  /\ sblock_vector = split_domain_border_sblocks(
                       << Sblock(Block(0, MaxPos), non_tried) >>, domain, 1)
  /\ bad_sectors \in SUBSET Positions
  /\ max_retries \in -1 .. MaxRetries
  /\ retry = 0
  /\ current_pos = 0
  /\ interrupts = 0
  /\ skipbs \in {0, default_skipbs}
  /\ max_skipbs = max_max_skipbs
  /\ skip_size = skipbs
  /\ skip_state = "idle"
  /\ first_pass = TRUE
  /\ output = {}

\* What a step of the engine leaves alone
EngineStep ==
  UNCHANGED << idlevars, domain, sigvars, flushvars, bad_sectors,
               max_retries, interrupts, skipbs, max_skipbs >>

\* Skipping is enabled: -K did not give 0, and the domain was not yet
\* scanned once
skipping == skipbs > 0 /\ first_pass

\* One cluster of the copying phase: it is read, what was read is written
\* to the outfile, and the mapbook is updated.  When nothing is non_tried
\* behind the read head the domain was scanned once: the phase ends, or it
\* starts again at the beginning of the domain, without skipping
Copy ==
  /\ pc = "copying"
  /\ skip_state # "error"
  /\ \E b \in {next_cluster(sblock_vector, domain, current_pos)} :
       IF b.size = 0
       THEN /\ pc' = IF FirstOf(non_tried) = 0 THEN next_phase(pc) ELSE pc
            /\ current_pos' = 0
            /\ first_pass' = FALSE
            /\ skip_state' = "idle"
            /\ UNCHANGED << sblock_vector, skip_size, output >>
       ELSE \E e \in b.pos .. End(b) :
              /\ e = first_error(bad_sectors, b)
              /\ output' = written(output, Block(b.pos, e - b.pos))
              /\ sblock_vector' = copy_block(sblock_vector, domain,
                                             bad_sectors, b)
              /\ current_pos' = End(b)
              /\ skip_state' = IF e < End(b) /\ skipping THEN "error"
                               ELSE "idle"
              /\ skip_size' = IF e = End(b) /\ skip_state = "skipped"
                              THEN halved(skip_size, skipbs) ELSE skip_size
              /\ UNCHANGED << pc, first_pass >>
  /\ UNCHANGED retry
  /\ EngineStep

\* The skip after a read error of the copying phase: the read head jumps
\* skip_size sectors forward and the skip size doubles
Skip ==
  /\ pc = "copying"
  /\ skip_state = "error"
  /\ current_pos' = current_pos + skip_size
  /\ skip_size' = doubled(skip_size, max_skipbs)
  /\ skip_state' = "skipped"
  /\ UNCHANGED << pc, sblock_vector, retry, first_pass, output >>
  /\ EngineStep

\* One sector of the trimming phase, or the end of the phase
Trim ==
  /\ pc = "trimming"
  /\ IF FirstOf(non_trimmed) = 0
     THEN pc' = next_phase(pc) /\ UNCHANGED << sblock_vector, output >>
     ELSE /\ \E i \in 1..Len(sblock_vector) :
               /\ i = FirstOf(non_trimmed)
               /\ sblock_vector' = trim_block(sblock_vector, domain,
                                      bad_sectors, sblock_vector[i])
               /\ output' = IF sblock_vector[i].pos \in bad_sectors
                            THEN output
                            ELSE written(output,
                                         Block(sblock_vector[i].pos, 1))
          /\ UNCHANGED pc
  /\ UNCHANGED << retry, current_pos, skip_size, skip_state, first_pass >>
  /\ EngineStep

\* One sector of the scraping phase, or the end of the phase
Scrape ==
  /\ pc = "scraping"
  /\ IF FirstOf(non_split) = 0
     THEN pc' = next_phase(pc) /\ UNCHANGED << sblock_vector, output >>
     ELSE /\ \E i \in 1..Len(sblock_vector) :
               /\ i = FirstOf(non_split)
               /\ sblock_vector' = read_sector(sblock_vector, domain,
                                      bad_sectors, sblock_vector[i])
               /\ output' = IF sblock_vector[i].pos \in bad_sectors
                            THEN output
                            ELSE written(output,
                                         Block(sblock_vector[i].pos, 1))
          /\ UNCHANGED pc
  /\ UNCHANGED << retry, current_pos, skip_size, skip_state, first_pass >>
  /\ EngineStep

\* One sector of a retry pass, the end of a pass, or the end of the run:
\* no bad sector is left or max_retries passes are done
Retry ==
  /\ pc = "retrying"
  /\ IF FirstChunkIndex(sblock_vector, domain, 1, bad_sector) = 0
        \/ (max_retries >= 0 /\ retry >= max_retries)
     THEN pc' = "done"
          /\ UNCHANGED << sblock_vector, retry, current_pos, output >>
     ELSE IF NextBad = 0
     THEN /\ retry' = IF retry <= MaxRetries THEN retry + 1 ELSE retry
          /\ current_pos' = 0
          /\ UNCHANGED << pc, sblock_vector, output >>
     ELSE \E i \in 1..Len(sblock_vector), at \in Sectors :
            /\ i = NextBad
            /\ at = IF sblock_vector[i].pos < current_pos
                    THEN current_pos ELSE sblock_vector[i].pos
            /\ sblock_vector' = read_sector(sblock_vector, domain,
                                   bad_sectors, Sblock(Block(at, 1), bad_sector))
            /\ output' = IF at \in bad_sectors THEN output
                         ELSE written(output, Block(at, 1))
            /\ current_pos' = at + 1
            /\ UNCHANGED << pc, retry >>
  /\ UNCHANGED << skip_size, skip_state, first_pass >>
  /\ EngineStep

NextEngine ==
  \/ Copy
  \/ Skip
  \/ Trim
  \/ Scrape
  \/ Retry

\* The engine runs on whenever it can: it is one loop of one thread
FairRescue == InitRescue /\ [][NextEngine]_vars /\ WF_vars(NextEngine)

\* Every sector of the domain is finished or a bad sector
AllRescued ==
  \A q \in Positions :
    DomainIncludesPos(domain, q) =>
      StatusAt(sblock_vector, q) \in {finished, bad_sector}

\* C17 as stated: the four phases end, with every sector of the domain
\* finished or a bad sector.
C17_Terminates == <>(pc = "done" /\ AllRescued)

\* C17: with a limit on the retry passes the four phases end, with every
\* sector of the domain finished or a bad sector; without a limit every
\* sector of the domain is finished or a bad sector from some point on.
C17_Completion ==
  /\ max_retries >= 0 => <>(pc = "done" /\ AllRescued)
  /\ <>[]AllRescued

\* The run is over after errors were trimmed and scraped and retried
C17_Witness ==
  /\ pc = "done"
  /\ retry = MaxRetries
  /\ Cardinality(bad_sectors) >= 2
  /\ \E q \in bad_sectors : StatusAt(sblock_vector, q) = bad_sector
  /\ \E q \in Positions : StatusAt(sblock_vector, q) = finished

\* ------------------------------------------------- interrupt and resume
\* An interrupt is seen between two reads: the mapfile is flushed and the
\* run ends
Interrupt ==
  /\ pc \in {"copying", "trimming", "scraping", "retrying"}
  /\ interrupts < MaxInterrupts
  /\ interrupts' = interrupts + 1
  /\ disk' = [disk EXCEPT !["map"] = File(TRUE, flushed_lines(sblock_vector))]
  /\ pc' = "interrupted"
  /\ UNCHANGED << idlevars, domain, sigvars, pre_flush, post_flush, flushes,
                  sblock_vector, bad_sectors, max_retries, retry, current_pos,
                  skipvars >>

\* The rerun: the mapbook is read from the mapfile and split at the borders
\* of the domain, and the phases start again; current_pos is the one saved
Resume ==
  /\ pc = "interrupted"
  /\ disk["map"].exists
  /\ sblock_vector' = split_domain_border_sblocks(disk["map"].lines, domain, 1)
  /\ retry' = 0
  /\ pc' = "copying"
  /\ skip_size' = skipbs
  /\ skip_state' = "idle"
  /\ first_pass' = TRUE
  /\ UNCHANGED << idlevars, domain, sigvars, flushvars, bad_sectors,
                  max_retries, current_pos, interrupts, skipbs, max_skipbs,
                  output >>

NextResume ==
  \/ Copy
  \/ Skip
  \/ Trim
  \/ Scrape
  \/ Retry
  \/ Interrupt
  \/ Resume

SpecResume == InitRescue /\ [][NextResume]_vars

\* The mapbook at the end of the phase that reads the sblocks of status st,
\* when nothing interrupts the phase
RECURSIVE phase_end(_, _, _, _)
phase_end(v, d, bad, st) ==
  LET i == FirstChunkIndex(v, d, 1, st)
  IN IF i = 0 THEN v
     ELSE phase_end(
            CHOOSE r \in { IF st = non_tried
                           THEN copy_block(w, d, bad,
                                           next_cluster(w, d, 0))
                           ELSE IF st = non_trimmed
                           THEN trim_block(w, d, bad, w[k])
                           ELSE read_sector(w, d, bad, w[k]) :
                           w \in {v}, k \in {i} } : TRUE,
            d, bad, st)

\* The final mapbook of the run that is not interrupted: the retry passes
\* read bad sectors that stay bad
Uninterrupted ==
  phase_end(
    phase_end(
      phase_end(
        split_domain_border_sblocks(
          << Sblock(Block(0, MaxPos), non_tried) >>, domain, 1),
        domain, bad_sectors, non_tried),
      domain, bad_sectors, non_trimmed),
    domain, bad_sectors, non_split)

\* C18: a run that was interrupted and resumed from the flushed mapfile,
\* any number of times and at any points, ends with the sblocks and the
\* statuses of the run that is not interrupted.
C18_Resume == pc = "done" => sblock_vector = Uninterrupted

\* A run with bad sectors is over after it was interrupted in two phases
C18_Witness ==
  /\ pc = "done"
  /\ interrupts = MaxInterrupts
  /\ \E q \in bad_sectors : DomainIncludesPos(domain, q)
  /\ \E q \in Positions \ bad_sectors : DomainIncludesPos(domain, q)
  /\ \E q \in Positions : ~DomainIncludesPos(domain, q)

\* ============================================ ddrescue: the skip sizes
MaxSkipOptions == 2    \* -K options on the command line
NoNumber == -1         \* a part of the argument of -K that is not given

\* The numbers given to -K: below, at and above the limits
SkipNumbers == {0, 1, default_skipbs, 3, 5}
MaxSkipNumbers == {1, default_skipbs, max_max_skipbs, 5}

\* -K <skip>, -K <skip>,<max> and -K ,<max>
SkipOptions ==
  { o \in [skip : SkipNumbers \cup {NoNumber},
           max : MaxSkipNumbers \cup {NoNumber}] :
      o.skip # NoNumber \/ o.max # NoNumber }

SkipCommandLines == UNION { [1..n -> SkipOptions] : n \in 0..MaxSkipOptions }

\* getnum( ptr, hardbs, llimit, ulimit ): the number, NoNumber when it is
\* outside of the limits (getnum shows an error and exits)
getnum(n, llimit, ulimit) ==
  IF n < llimit \/ n > ulimit THEN NoNumber ELSE n

\* What parse_skipbs leaves: whether it called std::exit, and the two sizes
SkipSizes(e, s, m) == [exit |-> e, skipbs |-> s, max_skipbs |-> m]

\* parse_skipbs without the comparison of the two sizes
parse_skipbs_no_order(o, s, m) ==
  LET s1 == IF o.skip # NoNumber THEN getnum(o.skip, 0, max_max_skipbs)
            ELSE s
      m1 == IF o.max # NoNumber
            THEN getnum(o.max, default_skipbs, max_max_skipbs) ELSE m
  IN IF s1 = NoNumber THEN SkipSizes(TRUE, s, m)
     ELSE IF m1 = NoNumber THEN SkipSizes(TRUE, s1, m)
     ELSE IF s1 > 0 /\ s1 < default_skipbs THEN SkipSizes(TRUE, s1, m1)
     ELSE SkipSizes(FALSE, s1, m1)

\* parse_skipbs( ptr, rb_opts, hardbs )
parse_skipbs(o, s, m) ==
  LET s1 == IF o.skip # NoNumber THEN getnum(o.skip, 0, max_max_skipbs)
            ELSE s
      m1 == IF o.max # NoNumber
            THEN getnum(o.max, default_skipbs, max_max_skipbs) ELSE m
  IN IF s1 = NoNumber THEN SkipSizes(TRUE, s, m)
     ELSE IF m1 = NoNumber THEN SkipSizes(TRUE, s1, m)
     ELSE IF s1 > 0 /\ s1 < default_skipbs THEN SkipSizes(TRUE, s1, m1)
     ELSE IF s1 > m1 THEN SkipSizes(TRUE, s1, m1)
     ELSE SkipSizes(FALSE, s1, m1)

\* The domains of -i and -s: a window of the infile
Windows ==
  { << Block(lo, hi - lo) >> : lo \in {0, 1}, hi \in {DiskSize - 1, DiskSize} }

\* main before the options are read: the sizes are the defaults of Rb_options
InitSkip ==
  /\ pc = "options"
  /\ outcome = NoOutcome
  /\ program_mode = "m_none"
  /\ domain = EmptyDomain
  /\ logname = NoFile
  /\ second_logname = NoFile
  /\ arg \in SkipCommandLines
  /\ sys_ok = TRUE
  /\ removed = FALSE
  /\ NoPositions
  /\ force = FALSE
  /\ stdin = << >>
  /\ sblock_vector = << >>
  /\ last_call = "none"
  /\ NoSignals
  /\ NoFlush
  /\ NoOpen
  /\ NoIo
  /\ bad_sectors = {}
  /\ max_retries = 0
  /\ retry = 0
  /\ current_pos = 0
  /\ interrupts = 0
  /\ skipbs = default_skipbs
  /\ max_skipbs = max_max_skipbs
  /\ skip_size = 0
  /\ skip_state = "idle"
  /\ first_pass = FALSE
  /\ output = {}

\* What the run leaves alone outside of the engine
SkipFrame ==
  UNCHANGED << program_mode, logname, second_logname, sys_ok, removed,
               hardbs, ipos, opos, force, stdin, last_call, sigvars,
               openvars, iovars >>

\* case 'K' of main: the next -K option is parsed
ParseSkipbs ==
  /\ pc = "options"
  /\ arg # << >>
  /\ \E r \in {parse_skipbs(Head(arg), skipbs, max_skipbs)} :
       /\ skipbs' = r.skipbs
       /\ max_skipbs' = r.max_skipbs
       /\ pc' = IF r.exit THEN "exit" ELSE pc
       /\ outcome' = IF r.exit THEN Outcome("exit", 1, NoFile) ELSE outcome
  /\ arg' = Tail(arg)
  /\ UNCHANGED << domain, sblock_vector, flushvars, bad_sectors, max_retries,
                  retry, current_pos, interrupts, skip_size, skip_state,
                  first_pass, output >>
  /\ SkipFrame

\* The options are read: do_rescue hands a blank mapbook to the engine, and
\* the copying phase starts with the initial skip size
StartRescue ==
  /\ pc = "options"
  /\ arg = << >>
  /\ pc' = "copying"
  /\ domain' \in Windows
  /\ sblock_vector' = split_domain_border_sblocks(
                        << Sblock(Block(0, DiskSize), non_tried) >>,
                        domain', 1)
  /\ bad_sectors' \in SUBSET (0 .. (DiskSize - 1))
  /\ skip_size' = skipbs
  /\ first_pass' = TRUE
  /\ UNCHANGED << arg, outcome, flushvars, max_retries, retry, current_pos,
                  interrupts, skipbs, max_skipbs, skip_state, output >>
  /\ SkipFrame

\* The mapfile is written between two reads, as it is every few seconds
UpdateMapfile ==
  /\ pc \in {"copying", "trimming", "scraping", "retrying"}
  /\ skip_state # "error"
  /\ ~disk["map"].exists \/ disk["map"].lines # flushed_lines(sblock_vector)
  /\ disk' = [disk EXCEPT !["map"] = File(TRUE, flushed_lines(sblock_vector))]
  /\ UNCHANGED << pc, arg, outcome, domain, sblock_vector, pre_flush,
                  post_flush, flushes, rescuevars >>
  /\ SkipFrame

\* A sector of the domain that is still to be rescued was read, and the
\* write of it to the outfile fails: the mapfile is written and the run
\* ends with status 1
WriteError ==
  /\ pc \in {"copying", "trimming", "scraping"}
  /\ skip_state # "error"
  /\ \E q \in 0 .. (DiskSize - 1) :
       /\ DomainIncludesPos(domain, q)
       /\ q \notin bad_sectors
       /\ StatusAt(sblock_vector, q) \in {non_tried, non_trimmed, non_split}
  /\ pc' = "fatal"
  /\ outcome' = Outcome("return", 1, NoFile)
  /\ disk' = [disk EXCEPT !["map"] = File(TRUE, flushed_lines(sblock_vector))]
  /\ UNCHANGED << arg, domain, sblock_vector, pre_flush, post_flush, flushes,
                  rescuevars >>
  /\ SkipFrame

NextSkip ==
  \/ ParseSkipbs
  \/ StartRescue
  \/ Copy
  \/ Skip
  \/ Trim
  \/ Scrape
  \/ Retry
  \/ UpdateMapfile
  \/ WriteError
  \/ Interrupt

SpecSkip == InitSkip /\ [][NextSkip]_vars

\* The step is the skip that follows a read error
SkipStep == skip_state = "error" /\ skip_state' = "skipped"

\* The step is a read of the copying phase
CopyStep == pc = "copying" /\ pc' = "copying" /\ current_pos' > current_pos
            /\ ~SkipStep

\* C22: as long as main has not exited, skipbs is 0 or default_skipbs <=
\* skipbs <= max_skipbs <= max_max_skipbs, whatever -K options were parsed;
\* while the copying phase skips, skipbs <= skip_size <= max_skipbs; a skip
\* doubles skip_size, up to max_skipbs; a good read that follows a skip
\* halves skip_size, down to skipbs.
C22_SkipBounds ==
  /\ [](pc # "exit" =>
          \/ skipbs = 0
          \/ /\ default_skipbs <= skipbs
             /\ skipbs <= max_skipbs
             /\ max_skipbs <= max_max_skipbs)
  /\ [](pc = "copying" /\ skipping =>
          skipbs <= skip_size /\ skip_size <= max_skipbs)
  /\ [][SkipStep =>
          skip_size' = IF 2 * skip_size <= max_skipbs
                       THEN 2 * skip_size ELSE max_skipbs]_vars
  /\ [][CopyStep /\ skip_state = "skipped" /\ skip_state' = "idle" =>
          skip_size' = IF skip_size \div 2 >= skipbs
                       THEN skip_size \div 2 ELSE skipbs]_vars

\* After two -K options the skip size has doubled up to a maximum that is
\* not a multiple of it
C22_Witness ==
  /\ pc = "copying"
  /\ skip_state = "skipped"
  /\ skipbs = 3
  /\ max_skipbs = max_max_skipbs
  /\ skip_size = max_skipbs
  /\ arg = << >>

C24_WriteBeforePersist ==
  /\ [](disk["map"].exists =>
          \A q \in 0 .. (DiskSize - 1) :
            StatusAt(disk["map"].lines, q) = finished =>
              q \in output /\ q \notin bad_sectors)
  /\ [][SkipStep /\ current_pos' # current_pos =>
          \E r \in bad_sectors :
            /\ r < current_pos
            /\ current_pos - r <= ClusterSize
            /\ \A q \in r .. (current_pos - 1) :
                 StatusAt(sblock_vector, q) = non_trimmed]_vars

\* The run ended at a write error after a skip: the mapfile on disk has
\* finished sectors and the cluster that failed
C24_Witness ==
  /\ pc = "fatal"
  /\ skip_state = "skipped"
  /\ \E q, r \in 0 .. (DiskSize - 1) :
       /\ StatusAt(disk["map"].lines, q) = finished
       /\ StatusAt(disk["map"].lines, r) = non_trimmed

\* ================================================ ddrescue: the options
MaxOptions == 3        \* options on the command line
default_hardbs == 512
dvd_hardbs == 2048     \* the sector size that --dvd sets

\* The sector sizes given to -b: all of them pass getnum( ptr, 0, 1,
\* max_hardbs )
SectorSizes == {1, dvd_hardbs, 4096}

Opt(c, v) == [code |-> c, value |-> v]

\* -b <n>, --dvd, and -f for the options that leave hardbs alone
Options == { Opt("b", n) : n \in SectorSizes } \cup {Opt("dvd", 0), Opt("f", 0)}

CommandLines == UNION { [1..n -> Options] : n \in 0..MaxOptions }

\* The locals of main that the options set
OptState(h, d, dv, f) ==
  [hardbs |-> h, hardbs_at_default |-> d, dvd |-> dv, force |-> f]

\* One turn of the switch
option_case(s, o) ==
  IF o.code = "b"
  THEN [s EXCEPT !.hardbs = IF ~s.hardbs_at_default THEN o.value ELSE @,
                 !.hardbs_at_default = FALSE]
  ELSE IF o.code = "dvd"
  THEN [s EXCEPT !.dvd = TRUE,
                 !.hardbs = IF s.hardbs_at_default THEN dvd_hardbs ELSE @]
  ELSE [s EXCEPT !.force = TRUE]

\* The loop over the options, from option k on
RECURSIVE process_options(_, _, _)
process_options(s, opts, k) ==
  IF k > Len(opts) THEN s
  ELSE process_options(option_case(s, opts[k]), opts, k + 1)

\* The options and what follows the loop
scan_options(opts) ==
  LET s == process_options(OptState(default_hardbs, TRUE, FALSE, FALSE),
                           opts, 1)
  IN IF s.hardbs < 1 THEN [s EXCEPT !.hardbs = default_hardbs] ELSE s

InitOptions ==
  /\ pc = "options"
  /\ outcome = NoOutcome
  /\ program_mode = "m_none"
  /\ domain = EmptyDomain
  /\ logname = NoFile
  /\ second_logname = NoFile
  /\ arg \in CommandLines
  /\ sys_ok = TRUE
  /\ removed = FALSE
  /\ hardbs = default_hardbs
  /\ ipos = 0
  /\ opos = -1
  /\ force = FALSE
  /\ stdin = << >>
  /\ sblock_vector = << >>
  /\ last_call = "none"
  /\ Elsewhere

\* main, from the first option to the names of the files
ScanOptions ==
  /\ pc = "options"
  /\ LET s == scan_options(arg)
     IN /\ hardbs' = s.hardbs
        /\ force' = s.force
        /\ outcome' = Outcome(IF s.dvd THEN "dvd" ELSE "rescue", NoExit, NoFile)
  /\ opos' = IF opos < 0 THEN ipos ELSE opos
  /\ pc' = "files"
  /\ UNCHANGED << program_mode, domain, logname, second_logname, arg, sys_ok,
                  removed, ipos, stdin, sblock_vector, last_call, elsewhere >>

NextOptions ==
  \/ ScanOptions

SpecOptions == InitOptions /\ [][NextOptions]_vars

\* The value of the last -b of the command line, default_hardbs without -b
LastSectorSize ==
  LET B == { k \in 1..Len(arg) : arg[k].code = "b" }
  IN IF B = {} THEN default_hardbs
     ELSE arg[CHOOSE k \in B : \A j \in B : j <= k].value

\* C19: after the options are processed, hardbs is the value of the last
\* -b of the command line, 512 when there is no -b.
C19_SectorSize == pc = "files" => hardbs = LastSectorSize

\* ============================================ ddrescue: the named files
\* A file system: what stat finds at each path, and which inodes are
\* regular files.  An inode stands for the pair st_dev, st_ino.
Null == "null"                  \* a name that is not given (a null pointer)
Paths == {"p", "q", "r"}
Inodes == {"i1", "i2"}
NoInode == "none"               \* stat fails
FileSystems ==
  [files : [Paths -> Inodes \cup {NoInode}], regular : [Inodes -> BOOLEAN]]

\* stat( name, &st ) == 0
stat_ok(fs, name) == fs.files[name] # NoInode

\* st_ino and st_dev of the two names are equal
same_inode(fs, a, b) == fs.files[a] = fs.files[b]

\* S_ISREG( st.st_mode )
S_ISREG(fs, name) == fs.regular[fs.files[name]]

\* check_identical without the comparison of the outfile and the mapfile
check_identical_in_only(fs, iname, oname, mapname) ==
  LET iexists == stat_ok(fs, iname)
      oexists == stat_ok(fs, oname)
  IN IF iname = oname \/ (iexists /\ oexists /\ same_inode(fs, iname, oname))
     THEN "Infile and outfile are the same."
     ELSE IF mapname = Null THEN ""
     ELSE IF iname = mapname
             \/ (iexists /\ stat_ok(fs, mapname)
                 /\ same_inode(fs, iname, mapname))
     THEN "Infile and mapfile are the same."
     ELSE ""

\* check_identical: the error shown, "" when it returns false
check_identical(fs, iname, oname, mapname) ==
  LET iexists == stat_ok(fs, iname)
      oexists == stat_ok(fs, oname)
  IN IF iname = oname \/ (iexists /\ oexists /\ same_inode(fs, iname, oname))
     THEN "Infile and outfile are the same."
     ELSE IF mapname = Null THEN ""
     ELSE IF iname = mapname
             \/ (iexists /\ stat_ok(fs, mapname)
                 /\ same_inode(fs, iname, mapname))
     THEN "Infile and mapfile are the same."
     ELSE IF oname = mapname
             \/ (oexists /\ stat_ok(fs, mapname)
                 /\ same_inode(fs, oname, mapname))
     THEN "Outfile and mapfile are the same."
     ELSE ""

\* check_files: the error shown, "" when it returns true
check_files(fs, iname, oname, mapname, min_outfile_size, frc, generate, preallocate, sparse) ==
  IF iname = Null \/ oname = Null
  THEN "Both input and output files must be specified."
  ELSE IF check_identical(fs, iname, oname, mapname) # ""
  THEN check_identical(fs, iname, oname, mapname)
  ELSE IF mapname # Null /\ stat_ok(fs, mapname) /\ ~S_ISREG(fs, mapname)
  THEN "Mapfile exists and is not a regular file."
  ELSE IF /\ ~generate
          /\ (min_outfile_size > 0 \/ ~frc \/ preallocate \/ sparse)
          /\ stat_ok(fs, oname) /\ ~S_ISREG(fs, oname)
  THEN "Output file exists and is not a regular file."
  ELSE ""

\* The names left on the command line: the outfile needs the infile and the
\* mapfile needs the outfile
FileNames ==
  { n \in [iname : Paths \cup {Null}, oname : Paths \cup {Null},
           mapname : Paths \cup {Null}] :
      /\ n.iname = Null => n.oname = Null
      /\ n.oname = Null => n.mapname = Null }

OutfileSizes == {0, 1}          \* -x: 0 when it is not given

\* What the options leave to check_files, and the file system it looks at
FileArgs ==
  [names : FileNames, fs : FileSystems, min_outfile_size : OutfileSizes,
   preallocate : BOOLEAN, sparse : BOOLEAN]

RescueModes == {"m_none", "m_fill", "m_generate"}

InitFiles ==
  /\ pc = "files"
  /\ outcome = NoOutcome
  /\ program_mode \in RescueModes
  /\ domain = EmptyDomain
  /\ logname = NoFile
  /\ second_logname = NoFile
  /\ arg \in FileArgs
  /\ sys_ok = TRUE
  /\ removed = FALSE
  /\ hardbs = default_hardbs
  /\ ipos = 0
  /\ opos = 0
  /\ force \in BOOLEAN
  /\ stdin = << >>
  /\ sblock_vector = << >>
  /\ last_call = "none"
  /\ Elsewhere

\* main: check_files, and return 1 when it fails
CheckFiles ==
  /\ pc = "files"
  /\ LET e == check_files(arg.fs, arg.names.iname, arg.names.oname,
                          arg.names.mapname, arg.min_outfile_size, force,
                          program_mode = "m_generate", arg.preallocate,
                          arg.sparse)
     IN IF e = ""
        THEN pc' = "mode" /\ UNCHANGED outcome
        ELSE pc' = "exit" /\ outcome' = Outcome(e, 1, NoFile)
  /\ UNCHANGED << program_mode, domain, logname, second_logname, arg, sys_ok,
                  removed, hardbs, ipos, opos, force, stdin, sblock_vector,
                  last_call, elsewhere >>

\* do_fill, do_generate, do_rescue: the first thing they do with the files
\* is to open the infile
OpenInfile ==
  /\ pc = "mode"
  /\ pc' = "opened"
  /\ last_call' = "open"
  /\ UNCHANGED << program_mode, domain, logname, second_logname, arg, sys_ok,
                  removed, hardbs, ipos, opos, force, stdin, sblock_vector,
                  outcome, elsewhere >>

NextFiles ==
  \/ CheckFiles
  \/ OpenInfile

SpecFiles == InitFiles /\ [][NextFiles]_vars

\* check_files has run
FilesChecked == pc \in {"exit", "mode", "opened"}

\* main returned 1 and no file was opened
FilesRejected == pc = "exit" /\ outcome.status = 1 /\ last_call # "open"

\* The two names are the same path or name the same existing inode
SameFile(a, b) ==
  a = b \/ (arg.fs.files[a] # NoInode /\ arg.fs.files[a] = arg.fs.files[b])

\* Two of the infile, the outfile and the mapfile are the same
TwoTheSame ==
  \/ SameFile(arg.names.iname, arg.names.oname)
  \/ /\ arg.names.mapname # Null
     /\ \/ SameFile(arg.names.iname, arg.names.mapname)
        \/ SameFile(arg.names.oname, arg.names.mapname)

\* The outfile exists and is not a regular file
OutfileNotRegular ==
  /\ arg.fs.files[arg.names.oname] # NoInode
  /\ ~arg.fs.regular[arg.fs.files[arg.names.oname]]

\* The mapfile exists and is not a regular file
MapfileNotRegular ==
  /\ arg.names.mapname # Null
  /\ arg.fs.files[arg.names.mapname] # NoInode
  /\ ~arg.fs.regular[arg.fs.files[arg.names.mapname]]

\* -x, -p or -S is given
RegularOnly == arg.min_outfile_size > 0 \/ arg.preallocate \/ arg.sparse

\* C20: with both names given, main returns 1 before any file is opened
\* when two of infile, outfile and mapfile are the same path or the same
\* existing inode, in every mode; and in rescue and fill modes when the
\* outfile exists and is not a regular file, unless --force is given
\* without -x, -p and -S, which lets such an outfile through.
C20_Protection ==
  (FilesChecked /\ arg.names.oname # Null) =>
    /\ TwoTheSame => FilesRejected
    /\ (program_mode # "m_generate" /\ OutfileNotRegular /\ ~force)
         => FilesRejected
    /\ (program_mode # "m_generate" /\ OutfileNotRegular /\ force
        /\ RegularOnly) => FilesRejected
    /\ (OutfileNotRegular /\ force /\ ~RegularOnly /\ ~TwoTheSame
        /\ ~MapfileNotRegular) => ~FilesRejected

\* Fill mode with --force and -S is refused for a device as outfile, the
\* three names being three files
C20_Witness ==
  /\ FilesRejected
  /\ program_mode = "m_fill"
  /\ arg.names.mapname # Null
  /\ OutfileNotRegular /\ force /\ arg.sparse
  /\ ~TwoTheSame /\ ~MapfileNotRegular

\* ============================================= ddrescue: do_rescue opens
\* What do_rescue is called with: --dvd, -I, -C, -t, --ask, -p, and whether
\* a mapfile is named
OpenArgs ==
  [dvd : BOOLEAN, verify_input_size : BOOLEAN, complete_only : BOOLEAN,
   o_trunc : BOOLEAN, ask : BOOLEAN, preallocate : BOOLEAN,
   mapname : BOOLEAN]

\* The mapbook of a mapfile that is new
BlankMap == << Sblock(Block(0, MaxPos), non_tried) >>

\* The mapfiles that a run may find: none, a blank one, one of a run that
\* has copied
FoundMaps ==
  {Absent, File(TRUE, BlankMap),
   File(TRUE, << Sblock(Block(0, MaxPos), finished) >>)}

\* Rescuebook::blank: no sblock of the mapbook was tried
blank(file) == \A k \in 1..Len(file.lines) : file.lines[k].status = non_tried

\* if (idvd) DVDClose(idvd)
DVDClose(h) == IF h = "open" THEN "closed" ELSE h

\* The steps of do_rescue with the mapfile created before the outfile is
\* opened
next_step_map_first(p) ==
  IF p = "open_input" THEN "validate"
  ELSE IF p = "validate" THEN "create_mapfile"
  ELSE IF p = "create_mapfile" THEN "open_output"
  ELSE IF p = "open_output" THEN "open_logs"
  ELSE "hand_off"

\* The steps of do_rescue, in the order of the code
next_step(p) ==
  IF p = "open_input" THEN "validate"
  ELSE IF p = "validate" THEN "open_output"
  ELSE IF p = "open_output" THEN "create_mapfile"
  ELSE IF p = "create_mapfile" THEN "open_logs"
  ELSE "hand_off"

InitOpen ==
  /\ pc = "open_input"
  /\ outcome = NoOutcome
  /\ program_mode = "m_none"
  /\ domain \in {EmptyDomain, << Block(0, MaxPos) >>}
  /\ logname = NoFile
  /\ second_logname = NoFile
  /\ arg \in OpenArgs
  /\ sys_ok = TRUE
  /\ removed = FALSE
  /\ NoPositions
  /\ force = FALSE
  /\ stdin = << >>
  /\ sblock_vector = << >>
  /\ last_call = "none"
  /\ NoSignals
  /\ NoRescue
  /\ NoOpen
  /\ NoIo
  /\ \E m \in FoundMaps :
       /\ ~arg.mapname => m = Absent
       /\ disk = [n \in {"map", "tmp"} |-> IF n = "map" THEN m ELSE Absent]
       /\ pre_flush = m
       /\ post_flush = m
  /\ flushes = 0

\* What no step of do_rescue changes
OpenFrame ==
  UNCHANGED << program_mode, domain, logname, second_logname, arg, sys_ok,
               removed, hardbs, ipos, opos, force, stdin, sblock_vector,
               last_call, sigvars, rescuevars, iovars >>

\* return status, after the error was shown
ReturnWith(message, status) ==
  /\ pc' = "return"
  /\ outcome' = Outcome(message, status, NoFile)

\* The infile is opened and its size is taken
OpenInput ==
  /\ pc = "open_input"
  /\ \E opened \in BOOLEAN, sized \in BOOLEAN :
       IF arg.dvd
       THEN /\ ides' = ides
            /\ IF ~opened
               THEN /\ ReturnWith("Can't open input DVD device", 1)
                    /\ idvd' = idvd
               ELSE IF ~sized
               THEN /\ ReturnWith("could not determine length of input DVD device", 1)
                    /\ idvd' = DVDClose("open")
               ELSE /\ pc' = next_step(pc)
                    /\ idvd' = "open"
                    /\ UNCHANGED outcome
       ELSE /\ idvd' = idvd
            /\ IF ~opened
               THEN /\ ReturnWith("Can't open input file", 1)
                    /\ ides' = ides
               ELSE IF ~sized
               THEN /\ ReturnWith("Input file is not seekable.", 1)
                    /\ ides' = "open"
               ELSE /\ pc' = next_step(pc)
                    /\ ides' = "open"
                    /\ UNCHANGED outcome
  /\ UNCHANGED << odes, open_logs, flushvars >>
  /\ OpenFrame

\* The Rescuebook is built, and what it finds is checked against the
\* options
Validate ==
  /\ pc = "validate"
  /\ \E verified \in BOOLEAN, read_only \in BOOLEAN, agrees \in BOOLEAN :
       IF arg.verify_input_size /\ (~disk["map"].exists \/ ~verified)
       THEN /\ ReturnWith("Can't verify input file size.", 1)
            /\ idvd' = DVDClose(idvd)
       ELSE IF domain = EmptyDomain
       THEN IF arg.complete_only /\ ~disk["map"].exists
            THEN /\ ReturnWith("Nothing to complete; mapfile is missing or empty.", 1)
                 /\ idvd' = DVDClose(idvd)
            ELSE /\ ReturnWith("empty_domain", 0)
                 /\ idvd' = idvd
       ELSE IF arg.o_trunc /\ ~blank(disk["map"])
       THEN /\ ReturnWith("Outfile truncation and mapfile input are incompatible.", 1)
            /\ idvd' = DVDClose(idvd)
       ELSE IF arg.mapname /\ read_only
       THEN /\ ReturnWith("not_writable", 1)
            /\ idvd' = DVDClose(idvd)
       ELSE IF arg.ask /\ ~agrees
       THEN /\ ReturnWith("user_agrees_ids", 1)
            /\ idvd' = DVDClose(idvd)
       ELSE /\ pc' = next_step(pc)
            /\ UNCHANGED << outcome, idvd >>
  /\ UNCHANGED << ides, odes, open_logs, flushvars >>
  /\ OpenFrame

\* The outfile is opened (created, truncated with -t), rewound and
\* preallocated
OpenOutput ==
  /\ pc = "open_output"
  /\ \E opened \in BOOLEAN, rewound \in BOOLEAN, allocated \in BOOLEAN :
       IF ~opened
       THEN /\ ReturnWith("Can't open output file", 1)
            /\ idvd' = DVDClose(idvd)
            /\ odes' = odes
       ELSE IF ~rewound
       THEN /\ ReturnWith("Output file is not seekable.", 1)
            /\ idvd' = DVDClose(idvd)
            /\ odes' = "open"
       ELSE IF arg.preallocate /\ ~allocated
       THEN /\ ReturnWith("Can't preallocate output file", 1)
            /\ idvd' = DVDClose(idvd)
            /\ odes' = "open"
       ELSE /\ pc' = next_step(pc)
            /\ odes' = "open"
            /\ UNCHANGED << outcome, idvd >>
  /\ UNCHANGED << ides, open_logs, flushvars >>
  /\ OpenFrame

\* A mapfile that is named and does not exist is written
CreateMapfile ==
  /\ pc = "create_mapfile"
  /\ IF arg.mapname /\ ~disk["map"].exists
     THEN \E ok \in BOOLEAN :
            IF ok
            THEN /\ disk' = [disk EXCEPT !["map"] = File(TRUE, BlankMap)]
                 /\ pre_flush' = disk["map"]
                 /\ post_flush' = File(TRUE, BlankMap)
                 /\ flushes' = flushes + 1
                 /\ pc' = next_step(pc)
                 /\ UNCHANGED << outcome, idvd >>
            ELSE /\ ReturnWith("Can't create mapfile", 1)
                 /\ idvd' = DVDClose(idvd)
                 /\ UNCHANGED flushvars
     ELSE /\ pc' = next_step(pc)
          /\ UNCHANGED << outcome, idvd, flushvars >>
  /\ UNCHANGED << ides, odes, open_logs >>
  /\ OpenFrame

\* The files of the two loggers are opened
OpenLogs ==
  /\ pc = "open_logs"
  /\ \E rates \in BOOLEAN, reads \in BOOLEAN :
       IF ~rates
       THEN /\ ReturnWith("Can't open file for logging rates", 1)
            /\ idvd' = DVDClose(idvd)
            /\ open_logs' = open_logs
       ELSE IF ~reads
       THEN /\ ReturnWith("Can't open file for logging reads", 1)
            /\ idvd' = DVDClose(idvd)
            /\ open_logs' = {"rate_logger"}
       ELSE /\ pc' = next_step(pc)
            /\ open_logs' = {"rate_logger", "read_logger"}
            /\ UNCHANGED << outcome, idvd >>
  /\ UNCHANGED << ides, odes, flushvars >>
  /\ OpenFrame

\* return rescuebook.do_rescue( ides, odes ), or do_dvd_rescue
HandOff ==
  /\ pc = "hand_off"
  /\ pc' = "engine"
  /\ outcome' = Outcome(IF arg.dvd THEN "do_dvd_rescue" ELSE "do_rescue",
                        NoExit, NoFile)
  /\ UNCHANGED << openvars, flushvars >>
  /\ OpenFrame

NextOpen ==
  \/ OpenInput
  \/ Validate
  \/ OpenOutput
  \/ CreateMapfile
  \/ OpenLogs
  \/ HandOff

SpecOpen == InitOpen /\ [][NextOpen]_vars

\* The returns of do_rescue after a validation failed
ValidationFailures ==
  {"Can't open input DVD device",
   "could not determine length of input DVD device",
   "Can't open input file", "Input file is not seekable.",
   "Can't verify input file size.",
   "Nothing to complete; mapfile is missing or empty.", "empty_domain",
   "Outfile truncation and mapfile input are incompatible.",
   "not_writable", "user_agrees_ids"}

C28_Released ==
  pc = "return" =>
    /\ idvd # "open"
    /\ ides # "open"
    /\ odes # "open"
    /\ open_logs = {}

\* ================================================ readblock, writeblock
MaxSize == 3           \* the size asked for is 0 .. MaxSize
MaxEintr == 2          \* at most MaxEintr calls in a row end with EINTR

\* The values of errno, by their Linux numbers
EINTR == 4
EIO == 5
ESPIPE == 29

\* The errors of read and write, and those of lseek
CallErrors == {EINTR, EIO}
SeekErrors == {ESPIPE}

\* The locals of the loop: sz, errno, and whether the loop was left
IoState(s, e, d) == [sz |-> s, errno |-> e, done |-> d]

\* One turn of readblock's loop without errno = 0 before the call
read_turn_errno_kept(st, n, e) ==
  IF n > 0 THEN IoState(st.sz + n, st.errno, FALSE)
  ELSE IF n = 0 THEN IoState(st.sz, st.errno, TRUE)
  ELSE IoState(st.sz, e, e # EINTR)

\* One turn of readblock's loop: read returns n, and sets errno to e when
\* n < 0
read_turn(st, n, e) ==
  IF n > 0 THEN IoState(st.sz + n, 0, FALSE)
  ELSE IF n = 0 THEN IoState(st.sz, 0, TRUE)
  ELSE IoState(st.sz, e, e # EINTR)

\* One turn of writeblock's loop that takes a write of 0 bytes for the end
write_turn_eof(st, n, e) ==
  IF n > 0 THEN IoState(st.sz + n, 0, FALSE)
  ELSE IF n = 0 THEN IoState(st.sz, 0, TRUE)
  ELSE IoState(st.sz, e, e # EINTR)

\* One turn of writeblock's loop: write returns n, and sets errno to e when
\* n < 0
write_turn(st, n, e) ==
  IF n > 0 THEN IoState(st.sz + n, 0, FALSE)
  ELSE IF n < 0 /\ e # EINTR THEN IoState(st.sz, e, TRUE)
  ELSE IoState(st.sz, IF n < 0 THEN e ELSE 0, FALSE)

\* The calls of the engine: which function, and the size asked for
IoArgs == [op : {"readblock", "writeblock"}, size : 0..MaxSize]

InitIo ==
  /\ pc = "call"
  /\ outcome = NoOutcome
  /\ program_mode = "m_none"
  /\ domain = EmptyDomain
  /\ logname = NoFile
  /\ second_logname = NoFile
  /\ arg \in IoArgs
  /\ sys_ok = TRUE
  /\ removed = FALSE
  /\ NoPositions
  /\ force = FALSE
  /\ stdin = << >>
  /\ sblock_vector = << >>
  /\ last_call = "none"
  /\ NoSignals
  /\ NoFlush
  /\ NoRescue
  /\ NoOpen
  /\ sz = 0
  /\ errno \in {0, EIO}
  /\ last_n = -1
  /\ eintrs = 0
  /\ accepted = 0

\* What readblock and writeblock leave alone
IoFrame ==
  UNCHANGED << program_mode, domain, logname, second_logname, sys_ok,
               removed, hardbs, ipos, opos, force, stdin, sblock_vector,
               last_call, arg, outcome, sigvars, flushvars, rescuevars,
               openvars >>

\* sz = 0, errno = 0, and lseek
Seek ==
  /\ pc = "call"
  /\ sz' = 0
  /\ \E e \in SeekErrors \cup {0} :
       /\ errno' = e
       /\ pc' = IF e = 0 THEN "loop" ELSE "returned"
  /\ UNCHANGED << last_n, eintrs, accepted >>
  /\ IoFrame

\* One turn of the loop: a read or a write of at most size - sz bytes
Turn ==
  /\ pc = "loop"
  /\ sz < arg.size
  /\ \E n \in -1 .. (arg.size - sz), e \in CallErrors :
       /\ (n < 0 /\ e = EINTR) => eintrs < MaxEintr
       /\ (n >= 0) => e = EIO
       /\ LET st == IF arg.op = "readblock"
                    THEN read_turn(IoState(sz, errno, FALSE), n, e)
                    ELSE write_turn(IoState(sz, errno, FALSE), n, e)
          IN /\ sz' = st.sz
             /\ errno' = st.errno
             /\ pc' = IF st.done THEN "returned" ELSE "loop"
       /\ last_n' = n
       /\ eintrs' = IF n < 0 /\ e = EINTR THEN eintrs + 1 ELSE 0
       /\ accepted' = IF n > 0 THEN accepted + n ELSE accepted
  /\ IoFrame

\* return sz, when sz < size is false
ReturnSz ==
  /\ pc = "loop"
  /\ ~(sz < arg.size)
  /\ pc' = "returned"
  /\ UNCHANGED iovars
  /\ IoFrame

NextIo ==
  \/ Seek
  \/ Turn
  \/ ReturnSz

SpecIo == InitIo /\ [][NextIo]_vars

\* The function runs on when it can: lseek, read and write return
FairIo == InitIo /\ [][NextIo]_vars /\ WF_vars(NextIo)

\* C25: readblock returns sz with 0 <= sz <= size; errno is not EINTR; and
\* when sz < size, errno is 0 and the last read returned 0, or errno is an
\* error of lseek or read other than EINTR.
C25_Readblock ==
  (pc = "returned" /\ arg.op = "readblock") =>
    /\ 0 <= sz /\ sz <= arg.size
    /\ sz = accepted
    /\ errno # EINTR
    /\ sz < arg.size =>
         \/ errno = 0 /\ last_n = 0
         \/ errno \in (CallErrors \cup SeekErrors) \ {EINTR}

\* readblock returned at the end of the file after a read that was
\* interrupted
C25_Witness ==
  /\ pc = "returned" /\ arg.op = "readblock"
  /\ sz > 0 /\ sz < arg.size
  /\ errno = 0 /\ last_n = 0

\* C26: when writeblock returns sz < size, errno is an error other than
\* EINTR, and sz is the number of bytes that the write calls accepted.
C26_Writeblock ==
  (pc = "returned" /\ arg.op = "writeblock" /\ sz < arg.size) =>
    /\ errno # 0 /\ errno # EINTR
    /\ sz = accepted

\* writeblock returned after a write failed that followed a partial write
C26_Witness ==
  /\ pc = "returned" /\ arg.op = "writeblock"
  /\ sz > 0 /\ sz < arg.size
  /\ errno = EIO

\* C27 as stated: readblock and writeblock return, whatever the calls
\* return, a write or a read of 0 bytes included, when no more than
\* MaxEintr calls in a row end with EINTR.
C27_Returns == <>(pc = "returned")
====
